---- MODULE Spec2Model ----
(***************************************************************************)
(* CHORM: the statement builder (Query) of the ClickHouse ORM, its         *)
(* terminal operations and the part of DB (QueryRow / Query / Exec,        *)
(* scanRow / scanRows) they run through.                                   *)
(*                                                                         *)
(* Text is modelled as a sequence of tokens (strings); the blanks that     *)
(* fmt.Sprintf and strings.Join put between the tokens are not kept.  The  *)
(* placeholder marker is the token "?".                                    *)
(***************************************************************************)
EXTENDS Integers, Sequences, FiniteSets, TLC

\* ------------------------------------------------------------------ bounds
\* most settings a builder holds: entries of joins, wheres, groupBy, having
\* and orderBy, plus the scalar fields that differ from their NewQuery value
MaxSize == 2
\* most positional arguments held by the builder
MaxArgs == 2

\* ---------------------------------------------------------- input alphabets
Vals == {"v1", "v2"}
\* the values given with a join or having condition
OnVals == {"v2"}
Fields == {"a"}
Conds0 == { <<"a", "=", "b">> }
Conds1 == { <<"a", "=", "?">> }
JoinTables == {"t2"}
Ranges == { <<"v2", "v1">> }
Patterns == {"v1"}
InLists == { <<>>, <<"v1">>, <<"v1", "v2">> }
SelectLists == { <<>>, <<"id", "name">> }
Directions == { <<>>, <<"asc">>, <<"desc">> }
OrderFields == { <<"a">>, <<"ASC", "II">> }
Limits == {0, 2}
Offsets == {0, 3}
\* how many rows of the table match the statement when it is executed
RowCounts == {0, 25}
\* the field maps given to Update: column |-> value
DataMaps == { <<>>, [c \in {"x", "y"} |-> IF c = "x" THEN "d1" ELSE "d2"] }
\* what a result argument points to: a record, a scalar (*int64, *int), a
\* slice of records, or nothing (not a pointer)
DestKinds == {"struct", "slice", "value"}
\* what the database does with one statement: it fails, or it executes it
\* over a table of which `rows` rows match
Outcomes == {[fail |-> TRUE, rows |-> 0]}
            \cup {[fail |-> FALSE, rows |-> n] : n \in RowCounts}
\* the (page, perPage) pairs given to Paginate
PageInputs == { <<2, 10>> }
\* the numbers a statement can carry after LIMIT and OFFSET
Numbers == {0, 1, 2, 3, 10}

\* ------------------------------------------------------------ text helpers
RECURSIVE JoinText(_, _)
\* strings.Join(parts, sep) on token sequences
JoinText(parts, sep) ==
    IF Len(parts) = 0 THEN <<>>
    ELSE IF Len(parts) = 1 THEN parts[1]
    ELSE parts[1] \o sep \o JoinText(Tail(parts), sep)

\* number of placeholder markers in a text
CountMarkers(text) == Cardinality({i \in DOMAIN text : text[i] = "?"})

\* fmt.Sprintf("%d", n)
Itoa(n) == ToString(n)

\* the placeholders slice of WhereIn / WhereNotIn: one "?" per value
Placeholders(values) == [i \in 1..Len(values) |-> <<"?">>]

\* strings.ToUpper on a direction
ToUpper(s) ==
    CASE s = "asc" -> "ASC"
      [] s = "desc" -> "DESC"
      [] OTHER -> s

VARIABLES
    table, selects, wheres, groupBy, orderBy, limit, offset, args, distinct,
    having, joins,
    \* history: the args supplied with the entries of joins, wheres and having
    joinArgs, whereArgs, havingArgs,
    \* the transport calls made by the last operation, and what it returned
    calls, ret,
    \* the Window and the Aggregate made from the builder
    window, funcs,
    \* the row the table holds after DB.Insert, and the destination a read
    \* has filled
    stored, result,
    \* the descriptors one Mapper has cached
    registry,
    \* the record given to Mapper.SetFieldValue: the type and the value of its
    \* field Value
    target,
    \* the Migrator's migrations, the names the migrations table holds in the
    \* order of their ids, and the migrations whose Up is in effect
    migrations, ledger, effects,
    \* the nodes of the Cluster
    nodes

vars == <<table, selects, wheres, groupBy, orderBy, limit, offset, args,
          distinct, having, joins, joinArgs, whereArgs, havingArgs, calls, ret,
          window, funcs, stored, result, registry, target, migrations,
          ledger, effects, nodes>>

builder == <<table, selects, wheres, groupBy, orderBy, limit, offset, args,
             distinct, having, joins>>

history == <<joinArgs, whereArgs, havingArgs>>

\* ------------------------------------------------------------ record types
\* a field of a record type: its Go name and its `ch` tag ("" for none)
Field(go, ch) == [go |-> go, ch |-> ch, pk |-> FALSE]

\* a field tagged ch_pk:"true"
KeyField(go, ch) == [go |-> go, ch |-> ch, pk |-> TRUE]

\* a record type: its name, whether it has the TableName method, its fields
NoType == [name |-> "", naming |-> FALSE, fields |-> <<>>]
Plain ==
    [name |-> "Plain", naming |-> FALSE,
     fields |-> <<Field("Name", ""), Field("Email", "")>>]
TestUser ==
    [name |-> "TestUser", naming |-> TRUE,
     fields |-> <<Field("Name", "name"), Field("Email", "email")>>]
Empty == [name |-> "Empty", naming |-> FALSE, fields |-> <<>>]
RecordTypes == {Plain, TestUser, Empty}

\* another type whose TableName method names the table of TestUser
Other ==
    [name |-> "Other", naming |-> TRUE, fields |-> <<KeyField("ID", "id")>>]

\* a Go value: a struct of a record type with one value per field, or a value
\* of another kind
Value(kind, type, vals) == [kind |-> kind, type |-> type, vals |-> vals]
NoValue == Value("none", NoType, <<>>)
MapValue == Value("map", NoType, <<>>)
IntValue == Value("int", NoType, <<>>)

\* reflect.New of a record type: every field holds its zero value
Zero(type) == Value("struct", type, [i \in DOMAIN type.fields |-> ""])

\* the records and other values given to DB.Insert
Models ==
    UNION {{Value("struct", type, vals) : vals \in [DOMAIN type.fields -> Vals]} :
              type \in RecordTypes}
    \cup {MapValue}

\* what the table holds: the table, its columns, the values of the row of
\* the last successful insert, and the record that was inserted
NoRow == [table |-> "", columns |-> <<>>, values |-> <<>>, of |-> NoValue]

\* the number types: width in bits and signedness; int and uint are 64 bits
\* wide on the platforms the driver supports
SizedTypes ==
    {"int8", "int16", "int32", "int64", "uint8", "uint16", "uint32", "uint64"}
IntegerTypes == SizedTypes \cup {"int", "uint"}
Bits(type) ==
    CASE type \in {"int8", "uint8"} -> 8
      [] type \in {"int16", "uint16"} -> 16
      [] type \in {"int32", "uint32"} -> 32
      [] OTHER -> 64
Signed(type) == type \in {"int", "int8", "int16", "int32", "int64"}

\* a record with one exported field, Value, of the given type, holding the
\* zero value
NewTarget(type) == [type |-> type, v |-> IF type = "string" THEN "" ELSE 0]

\* the objects beside the builder
migrator == <<migrations, ledger, effects>>

beside == <<registry, target, migrator, nodes>>

aux == <<window, funcs, stored, result, beside>>

\* Query.NewWindow: no function, no OVER clause, no alias
NewWindowValue == [function |-> <<>>, over |-> <<>>, alias |-> <<>>]

\* what an operation returned: its error ("nil" for none), the count or total
\* (Count, Paginate), the flag (Exists), the number of records put into the
\* destination, and the inputs it was called with
Ret(op, err, count, found, n, input) ==
    [op |-> op, err |-> err, count |-> count, found |-> found, n |-> n,
     input |-> input]

NoRet == Ret("none", "nil", 0, FALSE, 0, <<>>)

\* a composition call returns the builder and talks to nobody
Composed == calls' = <<>> /\ ret' = NoRet

Entries == Len(joins) + Len(wheres) + Len(groupBy) + Len(having) + Len(orderBy)

Scalars ==
    (IF table # <<>> THEN 1 ELSE 0) + (IF selects # << <<"*">> >> THEN 1 ELSE 0)
    + (IF distinct THEN 1 ELSE 0) + (IF limit # 0 THEN 1 ELSE 0)
    + (IF offset # 0 THEN 1 ELSE 0)

\* the exploration stops growing a builder that holds MaxSize settings
Small == Entries + Scalars < MaxSize

Room(k) == Small /\ Len(args) + k <= MaxArgs

\* --------------------------------------------------------------- NewQuery
Init ==
    /\ table = <<>>
    /\ selects = << <<"*">> >>
    /\ wheres = <<>>
    /\ groupBy = <<>>
    /\ orderBy = <<>>
    /\ limit = 0
    /\ offset = 0
    /\ args = <<>>
    /\ distinct = FALSE
    /\ having = <<>>
    /\ joins = <<>>
    /\ joinArgs = <<>> /\ whereArgs = <<>> /\ havingArgs = <<>>
    /\ calls = <<>>
    /\ ret = NoRet
    /\ window = NewWindowValue
    /\ funcs = <<>>
    /\ stored = NoRow
    /\ result = NoValue
    /\ registry = {}
    /\ target = NewTarget("int8")
    /\ migrations = <<>>
    /\ ledger = <<>>
    /\ effects = {}
    /\ nodes = <<>>

\* ------------------------------------------------------------ composition
Table ==
    /\ Small
    /\ table' = <<"users">>
    /\ Composed
    /\ UNCHANGED <<selects, wheres, groupBy, orderBy, limit, offset, args,
                   distinct, having, joins, history, aux>>

Select ==
    \E fields \in SelectLists :
        /\ Small
        /\ selects' = IF Len(fields) > 0
                      THEN [i \in 1..Len(fields) |-> <<fields[i]>>]
                      ELSE selects
        /\ Composed
        /\ UNCHANGED <<table, wheres, groupBy, orderBy, limit, offset, args,
                       distinct, having, joins, history, aux>>

Distinct ==
    /\ Small
    /\ distinct' = TRUE
    /\ Composed
    /\ UNCHANGED <<table, selects, wheres, groupBy, orderBy, limit, offset,
                   args, having, joins, history, aux>>

\* the shared tail of the Where* methods: append condition and its args
AppendWhere(condition, as) ==
    /\ wheres' = Append(wheres, condition)
    /\ args' = args \o as
    /\ whereArgs' = whereArgs \o as
    /\ Composed
    /\ UNCHANGED <<table, selects, groupBy, orderBy, limit, offset, distinct,
                   having, joins, joinArgs, havingArgs, aux>>

Where ==
    \/ \E c \in Conds0 : Room(0) /\ AppendWhere(c, <<>>)
    \/ \E c \in Conds1, v \in Vals : Room(1) /\ AppendWhere(c, <<v>>)

\* WhereIn and WhereNotIn: nothing when the list is empty, else the condition
\* and the values appended
AppendIn(op, field, keyword, values) ==
    /\ IF Len(values) = 0
       THEN UNCHANGED <<wheres, args, whereArgs>>
       ELSE /\ Room(Len(values))
            /\ wheres' = Append(wheres,
                                <<field>> \o keyword \o <<"(">>
                                \o JoinText(Placeholders(values), <<",">>)
                                \o <<")">>)
            /\ args' = args \o values
            /\ whereArgs' = whereArgs \o values
    /\ calls' = <<>>
    /\ ret' = Ret(op, "nil", 0, FALSE, 0, [field |-> field, values |-> values])
    /\ UNCHANGED <<table, selects, groupBy, orderBy, limit, offset, distinct,
                   having, joins, joinArgs, havingArgs, aux>>

\* WhereIn adding `field IN ()` for an empty list
WhereIn_EmptyPredicate ==
    \E field \in Fields, values \in InLists :
        /\ Room(Len(values))
        /\ wheres' = Append(wheres,
                            <<field, "IN", "(">>
                            \o JoinText(Placeholders(values), <<",">>)
                            \o <<")">>)
        /\ args' = args \o values
        /\ whereArgs' = whereArgs \o values
        /\ calls' = <<>>
        /\ ret' = Ret("WhereIn", "nil", 0, FALSE, 0,
                      [field |-> field, values |-> values])
        /\ UNCHANGED <<table, selects, groupBy, orderBy, limit, offset,
                       distinct, having, joins, joinArgs, havingArgs, aux>>

WhereIn ==
    \E field \in Fields, values \in InLists :
        AppendIn("WhereIn", field, <<"IN">>, values)

WhereNotIn ==
    \E field \in Fields, values \in InLists :
        AppendIn("WhereNotIn", field, <<"NOT", "IN">>, values)

WhereBetween ==
    \E field \in Fields, range \in Ranges :
        LET start == range[1]
            end == range[2]
        IN /\ Room(2)
           /\ AppendWhere(<<field, "BETWEEN", "?", "AND", "?">>,
                          <<start, end>>)

WhereLike ==
    \E field \in Fields, pattern \in Patterns :
        /\ Room(1)
        /\ AppendWhere(<<field, "LIKE", "?">>, <<pattern>>)

WhereNull ==
    \E field \in Fields :
        /\ Room(0)
        /\ AppendWhere(<<field, "IS", "NULL">>, <<>>)

WhereNotNull ==
    \E field \in Fields :
        /\ Room(0)
        /\ AppendWhere(<<field, "IS", "NOT", "NULL">>, <<>>)

\* AppendJoin with the append to args left out
AppendJoin_DropArgs(join, as) ==
    /\ joins' = Append(joins, join)
    /\ args' = args
    /\ joinArgs' = joinArgs \o as
    /\ Composed
    /\ UNCHANGED <<table, selects, wheres, groupBy, orderBy, limit, offset,
                   distinct, having, whereArgs, havingArgs, aux>>

\* the shared tail of Join / LeftJoin / RightJoin
AppendJoin(join, as) ==
    /\ joins' = Append(joins, join)
    /\ args' = args \o as
    /\ joinArgs' = joinArgs \o as
    /\ Composed
    /\ UNCHANGED <<table, selects, wheres, groupBy, orderBy, limit, offset,
                   distinct, having, whereArgs, havingArgs, aux>>

JoinInputs(prefix) ==
    \/ \E t \in JoinTables, c \in Conds0 :
          Room(0) /\ AppendJoin(prefix \o <<t, "ON">> \o c, <<>>)
    \/ \E t \in JoinTables, c \in Conds1, v \in OnVals :
          Room(1) /\ AppendJoin(prefix \o <<t, "ON">> \o c, <<v>>)

Join == JoinInputs(<<"JOIN">>)

LeftJoin == JoinInputs(<<"LEFT", "JOIN">>)

RightJoin == JoinInputs(<<"RIGHT", "JOIN">>)

GroupBy ==
    \E fields \in {<<>>, <<"a">>} :
        /\ Small
        /\ groupBy' = groupBy \o [i \in 1..Len(fields) |-> <<fields[i]>>]
        /\ Composed
        /\ UNCHANGED <<table, selects, wheres, orderBy, limit, offset, args,
                       distinct, having, joins, history, aux>>

AppendHaving(condition, as) ==
    /\ having' = Append(having, condition)
    /\ args' = args \o as
    /\ havingArgs' = havingArgs \o as
    /\ Composed
    /\ UNCHANGED <<table, selects, wheres, groupBy, orderBy, limit, offset,
                   distinct, joins, joinArgs, whereArgs, aux>>

Having ==
    \/ \E c \in Conds0 : Room(0) /\ AppendHaving(c, <<>>)
    \/ \E c \in Conds1, v \in OnVals : Room(1) /\ AppendHaving(c, <<v>>)

AppendOrder(entry) ==
    /\ Room(0)
    /\ orderBy' = Append(orderBy, entry)
    /\ Composed
    /\ UNCHANGED <<table, selects, wheres, groupBy, limit, offset, args,
                   distinct, having, joins, history, aux>>

OrderBy ==
    \E field \in OrderFields, direction \in Directions :
        LET dir == IF Len(direction) > 0 THEN ToUpper(direction[1]) ELSE "ASC"
        IN AppendOrder(field \o <<dir>>)

OrderByAsc == \E field \in OrderFields : AppendOrder(field \o <<"ASC">>)

OrderByDesc == \E field \in OrderFields : AppendOrder(field \o <<"DESC">>)

Limit ==
    \E l \in Limits :
        /\ Small
        /\ limit' = l
        /\ Composed
        /\ UNCHANGED <<table, selects, wheres, groupBy, orderBy, offset, args,
                       distinct, having, joins, history, aux>>

Offset ==
    \E o \in Offsets :
        /\ Small
        /\ offset' = o
        /\ Composed
        /\ UNCHANGED <<table, selects, wheres, groupBy, orderBy, limit, args,
                       distinct, having, joins, history, aux>>

\* ---------------------------------------------------------------- buildSQL
\* buildSQL with the HAVING part appended before the GROUP BY part
Render_HavingFirst(sel, ord, lim, off) ==
    (<<"SELECT">> \o (IF distinct THEN <<"DISTINCT">> ELSE <<>>)
                 \o JoinText(sel, <<",">>))
    \o (IF table # <<>> THEN <<"FROM">> \o table ELSE <<>>)
    \o (IF Len(joins) > 0 THEN JoinText(joins, <<>>) ELSE <<>>)
    \o (IF Len(wheres) > 0
        THEN <<"WHERE">> \o JoinText(wheres, <<"AND">>) ELSE <<>>)
    \o (IF Len(having) > 0
        THEN <<"HAVING">> \o JoinText(having, <<"AND">>) ELSE <<>>)
    \o (IF Len(groupBy) > 0
        THEN <<"GROUP", "BY">> \o JoinText(groupBy, <<",">>) ELSE <<>>)
    \o (IF Len(ord) > 0
        THEN <<"ORDER", "BY">> \o JoinText(ord, <<",">>) ELSE <<>>)
    \o (IF lim > 0 THEN <<"LIMIT", Itoa(lim)>> ELSE <<>>)
    \o (IF off > 0 THEN <<"OFFSET", Itoa(off)>> ELSE <<>>)

\* the statement rendered from the given fields of the builder
Render(sel, ord, lim, off) ==
    (<<"SELECT">> \o (IF distinct THEN <<"DISTINCT">> ELSE <<>>)
                 \o JoinText(sel, <<",">>))
    \o (IF table # <<>> THEN <<"FROM">> \o table ELSE <<>>)
    \o (IF Len(joins) > 0 THEN JoinText(joins, <<>>) ELSE <<>>)
    \o (IF Len(wheres) > 0
        THEN <<"WHERE">> \o JoinText(wheres, <<"AND">>) ELSE <<>>)
    \o (IF Len(groupBy) > 0
        THEN <<"GROUP", "BY">> \o JoinText(groupBy, <<",">>) ELSE <<>>)
    \o (IF Len(having) > 0
        THEN <<"HAVING">> \o JoinText(having, <<"AND">>) ELSE <<>>)
    \o (IF Len(ord) > 0
        THEN <<"ORDER", "BY">> \o JoinText(ord, <<",">>) ELSE <<>>)
    \o (IF lim > 0 THEN <<"LIMIT", Itoa(lim)>> ELSE <<>>)
    \o (IF off > 0 THEN <<"OFFSET", Itoa(off)>> ELSE <<>>)

buildSQL == Render(selects, orderBy, limit, offset)

Compose ==
    \/ Table \/ Select \/ Distinct
    \/ Where \/ WhereIn \/ WhereNotIn \/ WhereBetween \/ WhereLike
    \/ WhereNull \/ WhereNotNull
    \/ Join \/ LeftJoin \/ RightJoin
    \/ GroupBy \/ Having
    \/ OrderBy \/ OrderByAsc \/ OrderByDesc
    \/ Limit \/ Offset

\* ------------------------------------------------------------------ Window
\* inputs of the window calls
WindowOffsets == {1}
PartitionExprs == { <<>>, <<"user_id">> }
OrderExprs == { <<>>, <<"created", "DESC">> }
Aliases == { <<"row_num">> }

\* the settings a Window holds
WindowSize ==
    (IF window.function # <<>> THEN 1 ELSE 0)
    + (IF window.over # <<>> THEN 1 ELSE 0)
    + (IF window.alias # <<>> THEN 1 ELSE 0)

\* the exploration stops growing a Window and the projections made from it
\* when they hold MaxSize settings together with the builder's entries
WindowRoom == Entries + (Len(selects) - 1) + WindowSize < MaxSize

\* a call on the Window changes nothing but the Window, and returns it; a
\* call that sets a field already set is explored as well
WindowCall(op, input, isSet) ==
    /\ isSet \/ WindowRoom
    /\ calls' = <<>>
    /\ ret' = Ret(op, "nil", 0, FALSE, 0, input)
    /\ UNCHANGED <<builder, history, funcs, stored, result, beside>>

NewWindow ==
    /\ window' = NewWindowValue
    /\ calls' = <<>>
    /\ ret' = Ret("NewWindow", "nil", 0, FALSE, 0, <<>>)
    /\ UNCHANGED <<builder, history, funcs, stored, result, beside>>

\* w.function = ...
SetFunction(op, input, text) ==
    /\ window' = [window EXCEPT !.function = text]
    /\ WindowCall(op, input, window.function # <<>>)

RowNumber == SetFunction("RowNumber", <<>>, <<"ROW_NUMBER()">>)

Rank_KeepFirst ==
    SetFunction("Rank", <<>>,
                IF window.function = <<>> THEN <<"RANK()">> ELSE window.function)

Rank == SetFunction("Rank", <<>>, <<"RANK()">>)

DenseRank == SetFunction("DenseRank", <<>>, <<"DENSE_RANK()">>)

Lag ==
    \E field \in Fields, off \in WindowOffsets :
        SetFunction("Lag", <<field, off>>, <<"LAG(", field, ",", Itoa(off), ")">>)

Lead ==
    \E field \in Fields, off \in WindowOffsets :
        SetFunction("Lead", <<field, off>>, <<"LEAD(", field, ",", Itoa(off), ")">>)

FirstValue ==
    \E field \in Fields :
        SetFunction("FirstValue", <<field>>, <<"FIRST_VALUE(", field, ")">>)

LastValue ==
    \E field \in Fields :
        SetFunction("LastValue", <<field>>, <<"LAST_VALUE(", field, ")">>)

NthValue ==
    \E field \in Fields, n \in WindowOffsets :
        SetFunction("NthValue", <<field, n>>,
                    <<"NTH_VALUE(", field, ",", Itoa(n), ")">>)

Ntile ==
    \E buckets \in WindowOffsets :
        SetFunction("Ntile", <<buckets>>, <<"NTILE(", Itoa(buckets), ")">>)

PercentRank == SetFunction("PercentRank", <<>>, <<"PERCENT_RANK()">>)

CumeDist == SetFunction("CumeDist", <<>>, <<"CUME_DIST()">>)

\* Window.Over leaving w.over empty when both expressions are empty
Over_OmitEmpty ==
    \E partitionBy \in PartitionExprs, order \in OrderExprs :
        LET parts ==
                (IF partitionBy # <<>>
                 THEN <<"PARTITION", "BY">> \o partitionBy ELSE <<>>)
                \o (IF order # <<>> THEN <<"ORDER", "BY">> \o order ELSE <<>>)
        IN /\ window' = [window EXCEPT !.over =
                            IF parts = <<>> THEN <<>>
                            ELSE <<"OVER", "(">> \o parts \o <<")">>]
           /\ WindowCall("Over", [partitionBy |-> partitionBy, orderBy |-> order],
                         window.over # <<>>)

Over ==
    \E partitionBy \in PartitionExprs, order \in OrderExprs :
        LET parts ==
                (IF partitionBy # <<>>
                 THEN <<"PARTITION", "BY">> \o partitionBy ELSE <<>>)
                \o (IF order # <<>> THEN <<"ORDER", "BY">> \o order ELSE <<>>)
        IN /\ window' = [window EXCEPT !.over = <<"OVER", "(">> \o parts \o <<")">>]
           /\ WindowCall("Over", [partitionBy |-> partitionBy, orderBy |-> order],
                         window.over # <<>>)

As ==
    \E alias \in Aliases :
        /\ window' = [window EXCEPT !.alias = alias]
        /\ WindowCall("As", [alias |-> alias], window.alias # <<>>)

\* Window.Build
Build ==
    IF window.function = <<>> THEN <<>>
    ELSE window.function
         \o window.over
         \o (IF window.alias # <<>> THEN <<"AS">> \o window.alias ELSE <<>>)

\* Window.AddToQuery appending whether or not a function was set
AddToQuery_NoFunctionCheck ==
    /\ WindowRoom
    /\ selects' = Append(selects,
                         window.function \o window.over
                         \o (IF window.alias # <<>>
                             THEN <<"AS">> \o window.alias ELSE <<>>))
    /\ calls' = <<>>
    /\ ret' = Ret("AddToQuery", "nil", 0, FALSE, 0, <<>>)
    /\ UNCHANGED <<table, wheres, groupBy, orderBy, limit, offset, args,
                   distinct, having, joins, history, aux>>

AddToQuery ==
    /\ WindowRoom
    /\ selects' = IF window.function = <<>> \/ Build = <<>>
                  THEN selects ELSE Append(selects, Build)
    /\ calls' = <<>>
    /\ ret' = Ret("AddToQuery", "nil", 0, FALSE, 0, <<>>)
    /\ UNCHANGED <<table, wheres, groupBy, orderBy, limit, offset, args,
                   distinct, having, joins, history, aux>>

\* --------------------------------------------------------------- Aggregate
\* inputs of the aggregate calls; a level is given in hundredths
AggFields == {"score"}
CountFields == {"*", "score"}
AggPairs == { <<"x", "y">> }
Levels == {95, 5}
Ks == {3}
AggDestKinds == {"struct", "map"}
AggAllDestKinds == {"slice", "map"}

\* fmt's %f of a level below one: six decimals
FormatF(h) == <<"0.", Itoa(h \div 10), Itoa(h % 10), "0000">>

\* a call on the Aggregate: what it was called with
AggInput(num, ops) == [num |-> num, ops |-> ops]

\* a.funcs = append(a.funcs, text)
AppendFunc(op, input, text) ==
    /\ Len(funcs) < MaxSize
    /\ funcs' = Append(funcs, text)
    /\ calls' = <<>>
    /\ ret' = Ret(op, "nil", 0, FALSE, 0, input)
    /\ UNCHANGED <<builder, history, window, stored, result, beside>>

\* the template "F(%s) as alias_%s"
OneField(op, open, alias) ==
    \E field \in AggFields :
        AppendFunc(op, AggInput(0, <<field>>),
                   <<open, field, ")", "as", alias, field>>)

\* the template "F(%s, %s) as alias_%s_%s"
TwoFields(op, open, alias) ==
    \E pair \in AggPairs :
        AppendFunc(op, AggInput(0, pair),
                   <<open, pair[1], ",", pair[2], ")", "as",
                     alias, pair[1], "_", pair[2]>>)

\* the template "F(%d)(%s) as alias_%d_%s"
NumberAndField(op, open, alias) ==
    \E k \in Ks, field \in AggFields :
        AppendFunc(op, AggInput(k, <<field>>),
                   <<open, Itoa(k), ")(", field, ")", "as",
                     alias, Itoa(k), "_", field>>)

AggSum == OneField("AggSum", "SUM(", "sum_")

AggAvg == OneField("AggAvg", "AVG(", "avg_")

AggMin == OneField("AggMin", "MIN(", "min_")

AggMax == OneField("AggMax", "MAX(", "max_")

\* Aggregate.Count with the suffixed template for every field, `*` included
AggCount_Suffixed ==
    \E field \in CountFields :
        AppendFunc("AggCount", AggInput(0, <<field>>),
                   <<"COUNT(", field, ")", "as", "count_", field>>)

AggCount ==
    \E field \in CountFields :
        AppendFunc("AggCount", AggInput(0, <<field>>),
                   IF field = "*" THEN <<"COUNT(*)", "as", "count">>
                   ELSE <<"COUNT(", field, ")", "as", "count_", field>>)

AggCountDistinct ==
    \E field \in AggFields :
        AppendFunc("AggCountDistinct", AggInput(0, <<field>>),
                   <<"COUNT(", "DISTINCT", field, ")", "as",
                     "count_distinct_", field>>)

AggUniq == OneField("AggUniq", "uniq(", "uniq_")

AggUniqExact == OneField("AggUniqExact", "uniqExact(", "uniq_exact_")

AggQuantile ==
    \E level \in Levels, field \in AggFields :
        AppendFunc("AggQuantile", AggInput(level, <<field>>),
                   <<"quantile(">> \o FormatF(level) \o <<")(", field, ")", "as",
                     "quantile_">> \o FormatF(level) \o <<"_", field>>)

AggMedian == OneField("AggMedian", "median(", "median_")

AggStdDev == OneField("AggStdDev", "stddev(", "stddev_")

AggVariance == OneField("AggVariance", "varSamp(", "variance_")

AggAny == OneField("AggAny", "any(", "any_")

AggArgMin == TwoFields("AggArgMin", "argMin(", "argmin_")

AggArgMax == TwoFields("AggArgMax", "argMax(", "argmax_")

AggGroupArray == OneField("AggGroupArray", "groupArray(", "group_array_")

AggGroupUniqArray ==
    OneField("AggGroupUniqArray", "groupUniqArray(", "group_uniq_array_")

AggTopK == NumberAndField("AggTopK", "topK(", "topk_")

AggTopKWeighted ==
    \E k \in Ks, pair \in AggPairs :
        AppendFunc("AggTopKWeighted", AggInput(k, pair),
                   <<"topKWeighted(", Itoa(k), ")(", pair[1], ",", pair[2], ")",
                     "as", "topk_weighted_", Itoa(k), "_", pair[1], "_", pair[2]>>)

AggHistogram == NumberAndField("AggHistogram", "histogram(", "histogram_")

AggCorr == TwoFields("AggCorr", "corr(", "corr_")

AggCovarPop == TwoFields("AggCovarPop", "covarPop(", "covar_pop_")

AggCovarSamp == TwoFields("AggCovarSamp", "covarSamp(", "covar_samp_")

AggSkewPop == OneField("AggSkewPop", "skewPop(", "skew_pop_")

AggKurtPop == OneField("AggKurtPop", "kurtPop(", "kurt_pop_")

AggEntropy == OneField("AggEntropy", "entropy(", "entropy_")

AggGeometricMean ==
    OneField("AggGeometricMean", "geometricMean(", "geometric_mean_")

AggHarmonicMean ==
    OneField("AggHarmonicMean", "harmonicMean(", "harmonic_mean_")

\* ------------------------------------------------------------- transport
\* strconv of a number token written by Itoa
Atoi(tok) == CHOOSE k \in Numbers : Itoa(k) = tok

\* the number that follows keyword kw in a statement, 0 when kw is absent
ClauseNumber(sql, kw) ==
    IF \E i \in DOMAIN sql : sql[i] = kw
    THEN Atoi(sql[(CHOOSE i \in DOMAIN sql : sql[i] = kw) + 1])
    ELSE 0

Min(a, b) == IF a < b THEN a ELSE b

\* the database behind conn.QueryContext / QueryRowContext: it fails, or it
\* answers a SELECT over n matching rows, cut by the OFFSET and LIMIT of
\* the text; a COUNT(*) projection answers one row holding n
Respond(sql, fail, n) ==
    IF fail THEN [ok |-> FALSE, rows |-> 0, scalar |-> 0]
    ELSE LET isCount == \E i \in DOMAIN sql : sql[i] = "COUNT(*)"
             base == IF isCount THEN 1 ELSE n
             lim == ClauseNumber(sql, "LIMIT")
             off == ClauseNumber(sql, "OFFSET")
             rest == IF base > off THEN base - off ELSE 0
         IN [ok |-> TRUE,
             rows |-> IF lim > 0 THEN Min(lim, rest) ELSE rest,
             scalar |-> IF isCount THEN n ELSE 0]

CallRec(kind, sql, as, resp) ==
    [kind |-> kind, sql |-> sql, args |-> as, resp |-> resp]

\* DB.scanRow scanning into any pointer destination, a pointer to a number
\* included
scanRow_AnyPointer(resp, dest) ==
    IF dest = "value" THEN "notptr"
    ELSE IF ~resp.ok \/ resp.rows = 0 THEN "scan"
    ELSE "nil"

\* DB.scanRow: the error it returns for a destination and a response.  A
\* record destination is taken to have one field per column of the row, so
\* that row.Scan fails only for a failed execution or an empty result
scanRow(resp, dest) ==
    IF dest = "value" THEN "notptr"
    ELSE IF dest # "struct" THEN "notstruct"
    ELSE IF ~resp.ok \/ resp.rows = 0 THEN "scan"
    ELSE "nil"

\* DB.QueryRow: runs the statement, then scanRow
QueryRow(dest, sql, as, out) ==
    LET resp == Respond(sql, out.fail, out.rows)
    IN [call |-> CallRec("QueryRow", sql, as, resp),
        err |-> scanRow(resp, dest),
        n |-> IF scanRow(resp, dest) = "nil" THEN 1 ELSE 0]

\* DB.scanRows: error and number of elements appended to the destination
scanRows(resp, dest) ==
    IF dest # "slice" THEN [err |-> "notslice", n |-> 0]
    ELSE [err |-> "nil", n |-> resp.rows]

\* DB.Query: runs the statement, then scanRows unless the execution failed
Query(dest, sql, as, out) ==
    LET resp == Respond(sql, out.fail, out.rows)
        scanned == scanRows(resp, dest)
    IN [call |-> CallRec("Query", sql, as, resp),
        err |-> IF ~resp.ok THEN "exec" ELSE scanned.err,
        n |-> IF ~resp.ok THEN 0 ELSE scanned.n]

\* DB.Exec
Exec(sql, as, fail) ==
    [call |-> CallRec("Exec", sql, as,
                      [ok |-> ~fail, rows |-> 0, scalar |-> 0]),
     err |-> IF fail THEN "exec" ELSE "nil"]

\* --------------------------------------------------- terminal operations
\* the body of Get: limit is 1 by now; renders, then DB.QueryRow.  ord is
\* the orderBy the builder holds while Get runs
GetRun(ord, dest, out) ==
    QueryRow(dest, Render(selects, ord, 1, offset), args, out)

\* Get without the assignment q.limit = 1
Get_KeepLimit ==
    \E dest \in DestKinds, out \in Outcomes :
        LET r == QueryRow(dest, buildSQL, args, out)
        IN /\ limit' = limit
           /\ calls' = <<r.call>>
           /\ ret' = Ret("Get", r.err, 0, FALSE, r.n, [dest |-> dest, out |-> out])
           /\ UNCHANGED <<table, selects, wheres, groupBy, orderBy, offset,
                          args, distinct, having, joins, history, aux>>

Get ==
    \E dest \in DestKinds, out \in Outcomes :
        LET r == GetRun(orderBy, dest, out)
        IN /\ limit' = 1
           /\ calls' = <<r.call>>
           /\ ret' = Ret("Get", r.err, 0, FALSE, r.n, [dest |-> dest, out |-> out])
           /\ UNCHANGED <<table, selects, wheres, groupBy, orderBy, offset,
                          args, distinct, having, joins, history, aux>>

All ==
    \E dest \in DestKinds, out \in Outcomes :
        LET r == Query(dest, buildSQL, args, out)
        IN /\ calls' = <<r.call>>
           /\ ret' = Ret("All", r.err, 0, FALSE, r.n, [dest |-> dest, out |-> out])
           /\ UNCHANGED <<builder, history, aux>>

\* the transport call and the results of Count on the current builder
CountRun(out) ==
    LET r == QueryRow("scalar",
                      Render(<< <<"COUNT(*)">> >>, orderBy, limit, offset),
                      args, out)
    IN [call |-> r.call, err |-> r.err,
        \* var count int64 is written only by a scan that succeeded
        count |-> IF r.err = "nil" THEN r.call.resp.scalar ELSE 0]

Count ==
    \E out \in Outcomes :
        LET r == CountRun(out)
        IN /\ selects' = selects
           /\ calls' = <<r.call>>
           /\ ret' = Ret("Count", r.err, r.count, FALSE, 0, [out |-> out])
           /\ UNCHANGED <<table, wheres, groupBy, orderBy, limit, offset,
                          args, distinct, having, joins, history, aux>>

Exists ==
    \E out \in Outcomes :
        LET r == QueryRow("scalar",
                          Render(<< <<"1">> >>, orderBy, 1, offset),
                          args, out)
        IN /\ selects' = << <<"1">> >>
           /\ limit' = 1
           /\ calls' = <<r.call>>
           /\ ret' = Ret("Exists", r.err, 0, r.err = "nil", 0, [out |-> out])
           /\ UNCHANGED <<table, wheres, groupBy, orderBy, offset, args,
                          distinct, having, joins, history, aux>>

First ==
    \E dest \in DestKinds, out \in Outcomes :
        LET r == GetRun(orderBy, dest, out)
        IN /\ limit' = 1
           /\ calls' = <<r.call>>
           /\ ret' = Ret("First", r.err, 0, FALSE, r.n, [dest |-> dest, out |-> out])
           /\ UNCHANGED <<table, selects, wheres, groupBy, orderBy, offset,
                          args, distinct, having, joins, history, aux>>

\* strings.Contains(order, word)
Contains(order, word) == \E i \in DOMAIN order : order[i] = word

\* strings.Replace(order, old, new, 1)
ReplaceFirst(order, old, new) ==
    LET at == CHOOSE i \in DOMAIN order :
                  order[i] = old /\ \A j \in 1..(i - 1) : order[j] # old
    IN [order EXCEPT ![at] = new]

\* one entry of invertedOrderBy in Last
Invert(order) ==
    IF Contains(order, "ASC") THEN ReplaceFirst(order, "ASC", "DESC")
    ELSE IF Contains(order, "DESC") THEN ReplaceFirst(order, "DESC", "ASC")
    ELSE order \o <<"DESC">>

\* the orderBy Last runs its statement with
LastOrderBy ==
    IF Len(orderBy) = 0 THEN << <<"id", "DESC">> >>
    ELSE [i \in 1..Len(orderBy) |-> Invert(orderBy[i])]

\* Last returning without the assignment that restores orderBy
Last_NoRestore ==
    \E dest \in DestKinds, out \in Outcomes :
        LET r == GetRun(LastOrderBy, dest, out)
        IN /\ limit' = 1
           /\ orderBy' = LastOrderBy
           /\ calls' = <<r.call>>
           /\ ret' = Ret("Last", r.err, 0, FALSE, r.n, [dest |-> dest, out |-> out])
           /\ UNCHANGED <<table, selects, wheres, groupBy, offset, args,
                          distinct, having, joins, history, aux>>

Last ==
    \E dest \in DestKinds, out \in Outcomes :
        LET r == GetRun(LastOrderBy, dest, out)
        IN /\ limit' = 1
           /\ orderBy' = orderBy
           /\ calls' = <<r.call>>
           /\ ret' = Ret("Last", r.err, 0, FALSE, r.n, [dest |-> dest, out |-> out])
           /\ UNCHANGED <<table, selects, wheres, groupBy, offset, args,
                          distinct, having, joins, history, aux>>

Paginate ==
    \E in \in PageInputs, out \in Outcomes :
        LET page == in[1]
            perPage == in[2]
            c == CountRun(out)
        IN IF c.err # "nil"
           THEN /\ calls' = <<c.call>>
                /\ ret' = Ret("Paginate", c.err, 0, FALSE, 0,
                              [page |-> page, perPage |-> perPage,
                               out |-> out])
                /\ UNCHANGED <<builder, history, aux>>
           ELSE \E dest \in DestKinds, out2 \in Outcomes :
                LET r == Query(dest, Render(selects, orderBy, perPage,
                                            (page - 1) * perPage), args, out2)
                IN /\ limit' = perPage
                   /\ offset' = (page - 1) * perPage
                   /\ calls' = <<c.call, r.call>>
                   /\ ret' = Ret("Paginate", r.err, c.count, FALSE, r.n,
                                 [page |-> page, perPage |-> perPage,
                                  out |-> out])
                   /\ UNCHANGED <<table, selects, wheres, groupBy, orderBy,
                                  args, distinct, having, joins, history, aux>>

\* the orders in which range may visit the keys of a map
KeyOrders(data) ==
    {o \in [1..Cardinality(DOMAIN data) -> DOMAIN data] :
        \A i, j \in DOMAIN o : i # j => o[i] # o[j]}

WhereClause ==
    IF Len(wheres) > 0 THEN <<"WHERE">> \o JoinText(wheres, <<"AND">>)
    ELSE <<>>

Update ==
    \E data \in DataMaps, fail \in BOOLEAN :
        IF DOMAIN data = {}
        THEN /\ calls' = <<>>
             /\ ret' = Ret("Update", "validation", 0, FALSE, 0, [data |-> data])
             /\ UNCHANGED <<builder, history, aux>>
        ELSE \E keys \in KeyOrders(data) :
             LET sets == [k \in DOMAIN keys |-> <<keys[k], "=", "?">>]
                 setArgs == [k \in DOMAIN keys |-> data[keys[k]]]
                 sql == <<"UPDATE">> \o table \o <<"SET">>
                          \o JoinText(sets, <<",">>) \o WhereClause
                 r == Exec(sql, setArgs \o args, fail)
             IN /\ calls' = <<r.call>>
                /\ ret' = Ret("Update", r.err, 0, FALSE, 0, [data |-> data])
                /\ UNCHANGED <<builder, history, aux>>

Delete ==
    \E fail \in BOOLEAN :
        LET r == Exec(<<"DELETE", "FROM">> \o table \o WhereClause, args, fail)
        IN /\ calls' = <<r.call>>
           /\ ret' = Ret("Delete", r.err, 0, FALSE, 0, <<>>)
           /\ UNCHANGED <<builder, history, aux>>

\* Aggregate.Get going on to Query.Get with no aggregate function
AggregateGet_NoCheck ==
    \E dest \in AggDestKinds, out \in Outcomes :
        LET r == QueryRow(dest, Render(funcs, orderBy, 1, offset), args, out)
        IN /\ selects' = funcs
           /\ limit' = 1
           /\ calls' = <<r.call>>
           /\ ret' = Ret("AggregateGet", r.err, 0, FALSE, r.n,
                         [dest |-> dest, out |-> out])
           /\ UNCHANGED <<table, wheres, groupBy, orderBy, offset, args,
                          distinct, having, joins, history, aux>>

\* Aggregate.Get: the aggregate functions become the projections, then
\* Query.Get
AggregateGet ==
    \E dest \in AggDestKinds, out \in Outcomes :
        IF Len(funcs) = 0
        THEN /\ calls' = <<>>
             /\ ret' = Ret("AggregateGet", "validation", 0, FALSE, 0,
                           [dest |-> dest, out |-> out])
             /\ UNCHANGED <<builder, history, aux>>
        ELSE LET r == QueryRow(dest, Render(funcs, orderBy, 1, offset), args, out)
             IN /\ selects' = funcs
                /\ limit' = 1
                /\ calls' = <<r.call>>
                /\ ret' = Ret("AggregateGet", r.err, 0, FALSE, r.n,
                              [dest |-> dest, out |-> out])
                /\ UNCHANGED <<table, wheres, groupBy, orderBy, offset, args,
                               distinct, having, joins, history, aux>>

\* Aggregate.All: the aggregate functions become the projections, then
\* Query.All
AggregateAll ==
    \E dest \in AggAllDestKinds, out \in Outcomes :
        IF Len(funcs) = 0
        THEN /\ calls' = <<>>
             /\ ret' = Ret("AggregateAll", "validation", 0, FALSE, 0,
                           [dest |-> dest, out |-> out])
             /\ UNCHANGED <<builder, history, aux>>
        ELSE LET r == Query(dest, Render(funcs, orderBy, limit, offset), args, out)
             IN /\ selects' = funcs
                /\ calls' = <<r.call>>
                /\ ret' = Ret("AggregateAll", r.err, 0, FALSE, r.n,
                              [dest |-> dest, out |-> out])
                /\ UNCHANGED <<table, wheres, groupBy, orderBy, limit, offset,
                               args, distinct, having, joins, history, aux>>

\* ------------------------------------------------------------------ Mapper
\* strings.ToLower of a type name
ToLower(name) ==
    CASE name = "Plain" -> "plain"
      [] name = "TestUser" -> "testuser"
      [] name = "Empty" -> "empty"
      [] OTHER -> name

\* Mapper.getTableName: the TableName method of a Model, else the ch_table
\* tag of the first field (no type here carries one), else the lower-cased
\* type name; typ.Field(0) aborts for a type without fields
getTableName(model) ==
    IF model.type.naming THEN [panic |-> FALSE, name |-> "test_users"]
    ELSE IF Len(model.type.fields) = 0 THEN [panic |-> TRUE, name |-> ""]
    ELSE [panic |-> FALSE, name |-> ToLower(model.type.name)]

\* Mapper.parseField: the name of the FieldInfo
\* Mapper.parseField: the FieldInfo; the fields here are Go strings, and
\* none is tagged ch_type or ch_auto
parseField(field) ==
    [Name |-> IF field.ch # "" THEN field.ch ELSE field.go,
     Type |-> "String", IsPK |-> field.pk, IsAuto |-> FALSE]

\* Mapper.ParseStruct, on a fresh Mapper
ParseStruct(model) ==
    IF model.kind # "struct"
    THEN [err |-> "notstruct", Name |-> "", Fields |-> <<>>, Engine |-> ""]
    ELSE IF getTableName(model).panic
    THEN [err |-> "panic", Name |-> "", Fields |-> <<>>, Engine |-> ""]
    ELSE [err |-> "nil", Name |-> getTableName(model).name,
          Fields |-> [i \in DOMAIN model.type.fields |->
                         parseField(model.type.fields[i])],
          Engine |-> "MergeTree"]

\* a call is made by a process that has not aborted
Alive == ret.err # "panic"

\* the models given to ParseStruct on the one Mapper
ParseModels == Models \cup {Value("struct", Other, <<"v1">>)}

\* the descriptor ParseStruct returns on a Mapper with the cache reg: the
\* cached one for the table name when there is one, else the derived one
Cached(reg, model) ==
    LET derived == ParseStruct(model)
    IN IF derived.err = "nil" /\ \E d \in reg : d.Name = derived.Name
       THEN CHOOSE d \in reg : d.Name = derived.Name
       ELSE derived

\* Mapper.ParseStruct deriving and caching the descriptor again on every call
MapperParseStruct_Overwrite ==
    \E model \in ParseModels :
        LET info == ParseStruct(model)
        IN /\ Alive
           /\ registry' = IF info.err = "nil"
                           THEN {d \in registry : d.Name # info.Name} \cup {info}
                           ELSE registry
           /\ calls' = <<>>
           /\ ret' = Ret("ParseStruct", info.err, 0, FALSE, 0,
                         [model |-> model, info |-> info])
           /\ UNCHANGED <<builder, history, window, funcs, stored, result,
                         target, migrator, nodes>>

\* Mapper.ParseStruct on the one Mapper; the abort of getTableName leaves
\* the cache as it was
MapperParseStruct ==
    \E model \in ParseModels :
        LET info == Cached(registry, model)
        IN /\ Alive
           /\ registry' = IF info.err = "nil" THEN registry \cup {info}
                           ELSE registry
           /\ calls' = <<>>
           /\ ret' = Ret("ParseStruct", info.err, 0, FALSE, 0,
                         [model |-> model, info |-> info])
           /\ UNCHANGED <<builder, history, window, funcs, stored, result,
                         target, migrator, nodes>>

\* the types of the field Value, the field names and the values given to
\* Mapper.SetFieldValue; every number lies in the range of its type
TargetTypes == {"int8", "uint8", "int16", "uint16", "int64", "string"}
FieldNames == {"Value", "Missing"}
Typed(type, v) == [type |-> type, v |-> v]
SourceInts == {-70000, -129, -1, 7, 127, 200, 255, 300, 40000, 65535, 65791, 70000}
Sources ==
    {Typed("int8", -1), Typed("int8", 127), Typed("int16", -129),
     Typed("int16", 300), Typed("int32", 70000), Typed("int32", -70000),
     Typed("int64", 65791), Typed("int64", -1), Typed("uint8", 200),
     Typed("uint8", 255), Typed("uint16", 40000), Typed("uint32", 70000),
     Typed("uint64", 65535), Typed("int", 7), Typed("uint", 7),
     Typed("string", "300"), Typed("string", "-1"), Typed("string", "abc"),
     Typed("float64", 1), Typed("bool", TRUE)}

\* the conversion of a number to a type of w bits: the low w bits, read with
\* the signedness of the type. For the 64-bit types it is the identity on
\* the numbers here, all of which lie within the range of int64.
Wrap(v, type) ==
    IF Bits(type) > 16 THEN v
    ELSE LET m == 2 ^ Bits(type)
             low == v % m
         IN IF Signed(type) /\ low >= m \div 2 THEN low - m ELSE low

\* strconv.ParseInt and strconv.ParseUint in base 10
ParseInt(text) ==
    IF \E n \in SourceInts : Itoa(n) = text
    THEN [ok |-> TRUE, n |-> CHOOSE n \in SourceInts : Itoa(n) = text]
    ELSE [ok |-> FALSE, n |-> 0]
ParseUint(text) ==
    IF ParseInt(text).ok /\ ParseInt(text).n >= 0 THEN ParseInt(text)
    ELSE [ok |-> FALSE, n |-> 0]

\* fmt.Sprintf("%v", value)
Sprint(value) ==
    CASE value.type = "string" -> value.v
      [] value.type = "bool" -> IF value.v THEN "true" ELSE "false"
      [] OTHER -> Itoa(value.v)

\* reflect.New of a record type with one field, a new target of the calls
NewModel ==
    \E type \in TargetTypes :
        /\ target' = NewTarget(type)
        /\ calls' = <<>>
        /\ ret' = Ret("NewModel", "nil", 0, FALSE, 0, <<>>)
        /\ UNCHANGED <<builder, history, window, funcs, stored, result,
                       registry, migrator, nodes>>

\* what Mapper.SetFieldValue stores in a field of the given type: the value
\* after the call
Stored(field, value) ==
    IF field.type = value.type THEN value.v
    ELSE IF field.type = "string" THEN Sprint(value)
    ELSE IF Signed(field.type)
    THEN IF value.type \in SizedTypes THEN Wrap(value.v, field.type)
         ELSE IF value.type = "string" /\ ParseInt(value.v).ok
         THEN Wrap(ParseInt(value.v).n, field.type)
         ELSE field.v
    ELSE IF value.type \in SizedTypes THEN Wrap(value.v, field.type)
         ELSE IF value.type = "string" /\ ParseUint(value.v).ok
         THEN Wrap(ParseUint(value.v).n, field.type)
         ELSE field.v

\* Mapper.SetFieldValue on a pointer to the record
SetFieldValue ==
    \E fieldName \in FieldNames, value \in Sources :
        /\ target' = IF fieldName = "Value"
                      THEN [target EXCEPT !.v = Stored(target, value)]
                      ELSE target
        /\ calls' = <<>>
        /\ ret' = Ret("SetFieldValue",
                      IF fieldName = "Value" THEN "nil" ELSE "notfound",
                      0, FALSE, 0, [fieldName |-> fieldName, value |-> value])
        /\ UNCHANGED <<builder, history, window, funcs, stored, result,
                       registry, migrator, nodes>>

\* Mapper.BuildCreateTableSQL; ParseStruct leaves Options empty
BuildCreateTableSQL(info) ==
    LET columnDef(field) ==
            <<field.Name, field.Type>>
            \o (IF field.IsPK THEN <<"PRIMARY", "KEY">> ELSE <<>>)
            \o (IF field.IsAuto THEN <<"AUTO_INCREMENT">> ELSE <<>>)
        engine == IF info.Engine = "" THEN "MergeTree" ELSE info.Engine
    IN <<"CREATE", "TABLE", "IF", "NOT", "EXISTS", info.Name, "(">>
       \o JoinText([i \in DOMAIN info.Fields |-> columnDef(info.Fields[i])],
                   <<",">>)
       \o <<")", "ENGINE", "=", engine>>

\* reflect's FieldByName: the index of the field with that Go name, 0 when
\* the type has none
FieldByName(type, fieldName) ==
    IF \E i \in DOMAIN type.fields : type.fields[i].go = fieldName
    THEN CHOOSE i \in DOMAIN type.fields : type.fields[i].go = fieldName
    ELSE 0

\* Mapper.GetFieldValue
GetFieldValue(model, fieldName) ==
    LET i == FieldByName(model.type, fieldName)
    IN IF i = 0 THEN [err |-> "notfound", value |-> ""]
       ELSE [err |-> "nil", value |-> model.vals[i]]

\* DB.setFieldValue: the element after the call, or the value that stands for
\* the abort of FieldByName on an element that is not a struct
Aborted == Value("panic", NoType, <<>>)

setFieldValue(element, fieldName, value) ==
    IF element.kind # "struct" THEN Aborted
    ELSE LET i == FieldByName(element.type, fieldName)
         IN IF i = 0 THEN element
            ELSE [element EXCEPT !.vals[i] = value]

\* the loops of scanRow and scanRows over the names and the scanned values
RECURSIVE Fill(_, _, _)
Fill(element, names, values) ==
    IF names = <<>> \/ values = <<>> THEN element
    ELSE Fill(setFieldValue(element, Head(names), Head(values)),
              Tail(names), Tail(values))

\* DB.Insert
Insert ==
    \E model \in Models, fail \in BOOLEAN :
        LET info == ParseStruct(model)
            names == [i \in DOMAIN info.Fields |-> info.Fields[i].Name]
            got(name) == GetFieldValue(model, name).err = "nil"
            columns == SelectSeq(names, got)
            values == [i \in DOMAIN columns |->
                          GetFieldValue(model, columns[i]).value]
            sql == <<"INSERT", "INTO", info.Name, "(">>
                     \o JoinText([i \in DOMAIN columns |-> <<columns[i]>>], <<",">>)
                     \o <<")", "VALUES", "(">>
                     \o JoinText(Placeholders(values), <<",">>) \o <<")">>
            r == Exec(sql, values, fail)
            \* the table has the columns of the type; a column that the
            \* statement leaves out gets its default
            at(name) == CHOOSE i \in DOMAIN columns : columns[i] = name
            row == [i \in DOMAIN names |->
                       IF got(names[i]) THEN values[at(names[i])] ELSE ""]
        IN /\ Alive
           /\ IF info.err # "nil"
              THEN /\ calls' = <<>>
                   /\ ret' = Ret("Insert", info.err, 0, FALSE, 0, [model |-> model])
                   /\ stored' = stored
              ELSE /\ calls' = <<r.call>>
                   /\ ret' = Ret("Insert", r.err, 0, FALSE, 0, [model |-> model])
                   /\ stored' = IF fail THEN stored
                                ELSE [table |-> info.Name, columns |-> names,
                                      values |-> row, of |-> model]
           /\ UNCHANGED <<builder, history, window, funcs, result, beside>>

\* the lists given to DB.InsertBatch: up to two records or other values
BatchModels ==
    {Value("struct", Plain, <<"v1", "v2">>),
     Value("struct", TestUser, <<"v1", "v2">>),
     Value("struct", Empty, <<>>), MapValue}
Batches ==
    {<<>>} \cup {<<m>> : m \in BatchModels}
    \cup {<<m, n>> : m \in BatchModels, n \in BatchModels}

\* the nil bound for a field GetFieldValue does not find; the column gets
\* its default
Nil == "NULL"

RECURSIVE Concat(_)
Concat(seqs) == IF seqs = <<>> THEN <<>> ELSE Head(seqs) \o Concat(Tail(seqs))

\* DB.InsertBatch; stored is the row of the last record
InsertBatch ==
    \E models \in Batches, fail \in BOOLEAN :
        LET info == ParseStruct(models[1])
            names == [i \in DOMAIN info.Fields |-> info.Fields[i].Name]
            valuesOf(model) ==
                [i \in DOMAIN names |->
                    IF GetFieldValue(model, names[i]).err = "nil"
                    THEN GetFieldValue(model, names[i]).value ELSE Nil]
            group == <<"(">> \o JoinText(Placeholders(names), <<",">>) \o <<")">>
            sql == <<"INSERT", "INTO", info.Name, "(">>
                     \o JoinText([i \in DOMAIN names |-> <<names[i]>>], <<",">>)
                     \o <<")", "VALUES">>
                     \o JoinText([r \in DOMAIN models |-> group], <<",">>)
            allValues == Concat([r \in DOMAIN models |-> valuesOf(models[r])])
            r == Exec(sql, allValues, fail)
            last == models[Len(models)]
        IN /\ Alive
           /\ IF models = <<>>
              THEN /\ calls' = <<>>
                   /\ ret' = Ret("InsertBatch", "nil", 0, FALSE, 0,
                                 [models |-> models])
                   /\ stored' = stored
              ELSE IF info.err # "nil"
              THEN /\ calls' = <<>>
                   /\ ret' = Ret("InsertBatch", info.err, 0, FALSE, 0,
                                 [models |-> models])
                   /\ stored' = stored
              ELSE /\ calls' = <<r.call>>
                   /\ ret' = Ret("InsertBatch", r.err, 0, FALSE, 0,
                                 [models |-> models])
                   /\ stored' =
                          IF fail THEN stored
                          ELSE [table |-> info.Name, columns |-> names,
                                values |-> [i \in DOMAIN names |->
                                               IF valuesOf(last)[i] = Nil THEN ""
                                               ELSE valuesOf(last)[i]],
                                of |-> last]
           /\ UNCHANGED <<builder, history, window, funcs, result, beside>>

\* the destinations given to DB.QueryRow: a pointer to a struct, a pointer to
\* a map, a number that is no pointer
RowDests == {Zero(type) : type \in RecordTypes} \cup {MapValue, IntValue}

\* DB.QueryRow and DB.scanRow for SELECT * on the table, into a destination
\* with named fields
ReadRow ==
    \E dest \in RowDests, fail \in BOOLEAN :
        LET sql == <<"SELECT", "*", "FROM", stored.table>>
            resp == [ok |-> ~fail,
                     rows |-> IF fail \/ stored = NoRow THEN 0 ELSE 1,
                     scalar |-> 0]
            info == ParseStruct(dest)
            names == [i \in DOMAIN info.Fields |-> info.Fields[i].Name]
            err == IF dest.kind = "int" THEN "notptr"
                   ELSE IF dest.kind # "struct" THEN "notstruct"
                   ELSE IF info.err # "nil" THEN info.err
                   ELSE IF resp.rows = 0 \/ Len(names) # Len(stored.values)
                   THEN "scan"
                   ELSE "nil"
        IN /\ Alive
           /\ calls' = <<CallRec("QueryRow", sql, <<>>, resp)>>
           /\ ret' = Ret("ReadRow", err, 0, FALSE, IF err = "nil" THEN 1 ELSE 0,
                         [dest |-> dest, fail |-> fail])
           /\ result' = IF err = "nil" THEN Fill(dest, names, stored.values)
                        ELSE dest
           /\ UNCHANGED <<builder, history, window, funcs, stored, beside>>

\* the element types of the slices given to DB.Query
Elements == {Zero(type) : type \in RecordTypes} \cup {MapValue}

\* DB.Query and DB.scanRows for SELECT * on the table, into a slice; result
\* is the element appended for the row
ReadRows ==
    \E element \in Elements, fail \in BOOLEAN :
        LET sql == <<"SELECT", "*", "FROM", stored.table>>
            resp == [ok |-> ~fail,
                     rows |-> IF fail \/ stored = NoRow THEN 0 ELSE 1,
                     scalar |-> 0]
            filled == Fill(element, stored.columns, stored.values)
            err == IF fail THEN "exec"
                   ELSE IF resp.rows > 0 /\ filled = Aborted THEN "panic"
                   ELSE "nil"
        IN /\ Alive
           /\ calls' = <<CallRec("Query", sql, <<>>, resp)>>
           /\ ret' = Ret("ReadRows", err, 0, FALSE,
                         IF err = "nil" THEN resp.rows ELSE 0,
                         [dest |-> element, fail |-> fail])
           /\ result' = IF err = "nil" /\ resp.rows > 0 THEN filled ELSE NoValue
           /\ UNCHANGED <<builder, history, window, funcs, stored, beside>>

\* ---------------------------------------------------------------- Migrator
\* the names of the migrations, and the transport step that fails during a
\* call, if one does
MigrationNames == {"m1", "m2"}
FailPoints ==
    {"none", "create", "list", "check", "begin", "up", "down", "record",
     "commit"}

\* the Migration record type: the field Name is tagged ch:"name"
Migration ==
    [name |-> "Migration", naming |-> TRUE, fields |-> <<Field("Name", "name")>>]

\* the migrations table holds a row for the name
InLedger(led, name) == \E i \in DOMAIN led : led[i] = name

\* Migrator.IsMigrationApplied with a scanRow that fills a pointer to a number
IsMigrationApplied_Scans(led, name, fail) ==
    LET resp == [ok |-> fail # "check", rows |-> 1,
                 scalar |-> Cardinality({i \in DOMAIN led : led[i] = name})]
        err == scanRow_AnyPointer(resp, "scalar")
    IN [applied |-> err = "nil" /\ resp.scalar > 0, err |-> err]

\* Migrator.IsMigrationApplied: DB.QueryRow of COUNT(*) into &count
IsMigrationApplied(led, name, fail) ==
    LET resp == [ok |-> fail # "check", rows |-> 1,
                 scalar |-> Cardinality({i \in DOMAIN led : led[i] = name})]
        err == scanRow(resp, "scalar")
    IN [applied |-> err = "nil" /\ resp.scalar > 0, err |-> err]

\* Migrator.GetAppliedMigrations: DB.Query into a slice of Migration; the
\* names scanRows has put into the elements
GetAppliedMigrations(led, fail) ==
    [err |-> IF fail = "list" THEN "exec" ELSE "nil",
     names |-> IF fail = "list" THEN <<>>
               ELSE [i \in DOMAIN led |->
                        Fill(Zero(Migration), <<"name">>, <<led[i]>>).vals[1]]]

\* what a call leaves: its error, the table, the effects, and the migrations
\* whose Up it has run
Outcome(err, led, eff, ups) ==
    [err |-> err, ledger |-> led, effects |-> eff, ups |-> ups]

\* the body of Migrator.ApplyMigration. Up runs on m.db, outside the
\* transaction that records the migration; an Up that fails leaves nothing
ApplyRun(led, eff, name, fail) ==
    LET check == IsMigrationApplied(led, name, fail)
    IN IF check.err # "nil" THEN Outcome("check", led, eff, {})
       ELSE IF check.applied THEN Outcome("applied", led, eff, {})
       ELSE IF fail = "begin" THEN Outcome("begin", led, eff, {})
       ELSE IF fail = "up" THEN Outcome("up", led, eff, {name})
       ELSE IF fail = "record"
       THEN Outcome("record", led, eff \cup {name}, {name})
       ELSE IF fail = "commit"
       THEN Outcome("commit", led, eff \cup {name}, {name})
       ELSE Outcome("nil", Append(led, name), eff \cup {name}, {name})

\* the body of Migrator.RollbackMigration. Down runs on m.db, outside the
\* transaction that removes the row
RollbackRun(led, eff, name, fail) ==
    LET check == IsMigrationApplied(led, name, fail)
        known == \E i \in DOMAIN migrations : migrations[i] = name
        without == SelectSeq(led, LAMBDA n : n # name)
    IN IF check.err # "nil" THEN Outcome("check", led, eff, {})
       ELSE IF ~check.applied THEN Outcome("notapplied", led, eff, {})
       ELSE IF ~known THEN Outcome("notfound", led, eff, {})
       ELSE IF fail = "begin" THEN Outcome("begin", led, eff, {})
       ELSE IF fail = "down" THEN Outcome("down", led, eff, {})
       ELSE IF fail = "record" THEN Outcome("record", led, eff \ {name}, {})
       ELSE IF fail = "commit" THEN Outcome("commit", led, eff \ {name}, {})
       ELSE Outcome("nil", without, eff \ {name}, {})

\* the loop of Migrator.Migrate over the migrations that appliedMap lacks
RECURSIVE MigrateLoop(_, _, _, _, _, _)
MigrateLoop(todo, appliedMap, led, eff, ups, fail) ==
    IF todo = <<>> THEN Outcome("nil", led, eff, ups)
    ELSE IF Head(todo) \in appliedMap
    THEN MigrateLoop(Tail(todo), appliedMap, led, eff, ups, fail)
    ELSE LET r == ApplyRun(led, eff, Head(todo), fail)
         IN IF r.err # "nil"
            THEN Outcome(r.err, r.ledger, r.effects, ups \cup r.ups)
            ELSE MigrateLoop(Tail(todo), appliedMap, r.ledger, r.effects,
                             ups \cup r.ups, fail)

\* a call of the Migrator: the table and the effects it leaves
MigratorCall(op, name, fail, r) ==
    /\ ledger' = r.ledger
    /\ effects' = r.effects
    /\ calls' = <<>>
    /\ ret' = Ret(op, r.err, 0, FALSE, 0,
                  [name |-> name, fail |-> fail, ups |-> r.ups])
    /\ UNCHANGED <<builder, history, window, funcs, stored, result, registry,
                   target, migrations, nodes>>

\* Migrator.AddMigration
AddMigration ==
    \E name \in MigrationNames :
        /\ Len(migrations) < MaxSize
        /\ migrations' = Append(migrations, name)
        /\ calls' = <<>>
        /\ ret' = Ret("AddMigration", "nil", 0, FALSE, 0,
                      [name |-> name, fail |-> "none", ups |-> {}])
        /\ UNCHANGED <<builder, history, window, funcs, stored, result,
                       registry, target, ledger, effects, nodes>>

\* Migrator.ApplyMigration
ApplyMigration ==
    \E name \in MigrationNames, fail \in FailPoints :
        MigratorCall("ApplyMigration", name, fail,
                     ApplyRun(ledger, effects, name, fail))

\* Migrator.RollbackMigration
RollbackMigration ==
    \E name \in MigrationNames, fail \in FailPoints :
        MigratorCall("RollbackMigration", name, fail,
                     RollbackRun(ledger, effects, name, fail))

\* Migrator.Migrate
Migrate ==
    \E fail \in FailPoints :
        LET applied == GetAppliedMigrations(ledger, fail)
            appliedMap == {applied.names[i] : i \in DOMAIN applied.names}
        IN MigratorCall("Migrate", "", fail,
               IF fail = "create" THEN Outcome("create", ledger, effects, {})
               ELSE IF applied.err # "nil"
               THEN Outcome("list", ledger, effects, {})
               ELSE MigrateLoop(migrations, appliedMap, ledger, effects, {},
                                fail))

\* Migrator.Rollback
Rollback ==
    \E fail \in FailPoints :
        LET applied == GetAppliedMigrations(ledger, fail)
        IN MigratorCall("Rollback", "", fail,
               IF applied.err # "nil"
               THEN Outcome("list", ledger, effects, {})
               ELSE IF applied.names = <<>>
               THEN Outcome("none", ledger, effects, {})
               ELSE RollbackRun(ledger, effects,
                                applied.names[Len(applied.names)], fail))

\* ----------------------------------------------------------------- Cluster
\* the nodes given to AddNode: host, weight, and the Healthy flag the caller
\* has set
Hosts == {"h1", "h2"}
Weights == {0, 1, 2}
Node(host, weight, healthy) ==
    [Host |-> host, Weight |-> weight, Healthy |-> healthy]

\* a call on the Cluster; n tells a call from the one before it
ClusterCall(op, input) ==
    /\ calls' = <<>>
    /\ ret' = Ret(op, "nil", 0, FALSE, 1 - ret.n, input)
    /\ UNCHANGED <<builder, history, window, funcs, stored, result, registry,
                   target, migrator>>

\* Cluster.AddNode, of a host the Cluster does not hold yet
AddNode ==
    \E host \in Hosts, weight \in Weights, healthy \in BOOLEAN :
        /\ Len(nodes) < MaxSize
        /\ \A i \in DOMAIN nodes : nodes[i].Host # host
        /\ nodes' = Append(nodes, Node(host, weight, healthy))
        /\ ClusterCall("AddNode", [node |-> host])

\* Cluster.RemoveNode: the first node of that host is taken out
RemoveNode ==
    \E host \in Hosts :
        /\ nodes' = SelectSeq(nodes, LAMBDA node : node.Host # host)
        /\ ClusterCall("RemoveNode", [node |-> host])

\* Cluster.HealthCheck: every node is healthy just when the connection and
\* the ping succeed
HealthCheck ==
    \E reachable \in [DOMAIN nodes -> BOOLEAN] :
        /\ nodes' = [i \in DOMAIN nodes |->
                        [nodes[i] EXCEPT !.Healthy = reachable[i]]]
        /\ ClusterCall("HealthCheck", [node |-> ""])

\* Cluster.GetHealthyNodes
GetHealthyNodes == SelectSeq(nodes, LAMBDA node : node.Healthy)

RECURSIVE Sum(_)
Sum(weights) == IF weights = <<>> THEN 0 ELSE Head(weights) + Sum(Tail(weights))

\* the host of the node Cluster.GetNodeByWeight returns, "" for nil
PickByWeight(healthy) ==
    LET totalWeight == Sum([i \in DOMAIN healthy |-> healthy[i].Weight])
        currentWeight(i) == Sum([j \in 1..i |-> healthy[j].Weight])
        reached == {i \in DOMAIN healthy : currentWeight(i) >= totalWeight \div 2}
    IN IF healthy = <<>> THEN ""
       ELSE IF totalWeight = 0 THEN healthy[1].Host
       ELSE IF reached # {}
       THEN healthy[CHOOSE i \in reached : \A j \in reached : i <= j].Host
       ELSE healthy[1].Host

\* Cluster.GetNodeByWeight
GetNodeByWeight ==
    /\ nodes' = nodes
    /\ ClusterCall("GetNodeByWeight", [node |-> PickByWeight(GetHealthyNodes)])

\* composition in full, with the operations that send the predicates
Next == Compose \/ All \/ Update \/ Delete

Spec == Init /\ [][Next]_vars

\* the terminal operations in full, on builders made by a few compositions
NextTerminal ==
    \/ Select \/ Where \/ OrderBy \/ Limit \/ Offset
    \/ Get \/ All \/ Count \/ Exists \/ First \/ Last \/ Paginate
    \/ Update \/ Delete

SpecTerminal == Init /\ [][NextTerminal]_vars

\* a Window composed and added to a builder between other composition calls
NextWindow ==
    \/ NewWindow \/ RowNumber \/ Rank \/ DenseRank \/ Lag \/ Lead
    \/ FirstValue \/ LastValue \/ NthValue \/ Ntile \/ PercentRank \/ CumeDist
    \/ Over \/ As \/ AddToQuery
    \/ Select \/ Where

SpecWindow == Init /\ [][NextWindow]_vars

\* every aggregate call, on one Aggregate
NextAggregate ==
    \/ AggSum \/ AggAvg \/ AggMin \/ AggMax \/ AggCount \/ AggCountDistinct
    \/ AggUniq \/ AggUniqExact \/ AggQuantile \/ AggMedian \/ AggStdDev
    \/ AggVariance \/ AggAny \/ AggArgMin \/ AggArgMax \/ AggGroupArray
    \/ AggGroupUniqArray \/ AggTopK \/ AggTopKWeighted \/ AggHistogram
    \/ AggCorr \/ AggCovarPop \/ AggCovarSamp \/ AggSkewPop \/ AggKurtPop
    \/ AggEntropy \/ AggGeometricMean \/ AggHarmonicMean

SpecAggregate == Init /\ [][NextAggregate]_vars

\* the terminal calls of an Aggregate, and Update, on a builder with
\* predicates
NextAggregateTerminal ==
    \/ AggCount \/ AggAvg
    \/ Select \/ Where
    \/ AggregateGet \/ AggregateAll \/ Update

SpecAggregateTerminal == Init /\ [][NextAggregateTerminal]_vars

\* records written with DB.Insert and read back with DB.QueryRow and DB.Query
NextMapper == Insert \/ InsertBatch \/ ReadRow \/ ReadRows

SpecMapper == Init /\ [][NextMapper]_vars

\* ParseStruct calls on one Mapper, between inserts, which derive on a Mapper
\* of their own
NextRegistry == MapperParseStruct \/ Insert

SpecRegistry == Init /\ [][NextRegistry]_vars

\* the calls of one Migrator
NextMigrator ==
    AddMigration \/ ApplyMigration \/ RollbackMigration \/ Migrate \/ Rollback

SpecMigrator == Init /\ [][NextMigrator]_vars

\* the calls on one Cluster
NextCluster == AddNode \/ RemoveNode \/ HealthCheck \/ GetNodeByWeight

SpecCluster == Init /\ [][NextCluster]_vars

\* the caller of GetNodeByWeight keeps calling
SpecClusterFair == SpecCluster /\ WF_vars(GetNodeByWeight)

\* Mapper.SetFieldValue on records with a field of each of the types
NextCoercion == NewModel \/ SetFieldValue

SpecCoercion == Init /\ [][NextCoercion]_vars

\* -------------------------------------------------------------- properties
\* the values supplied for the placeholders of the rendered SELECT, in the
\* order the statement shows them: joins, then predicates, then having
SuppliedInTextOrder == joinArgs \o whereArgs \o havingArgs

\* C1: the i-th positional argument All passes to the transport is the value
\* supplied for the i-th placeholder of the rendered statement, whatever the
\* order of the composition calls.
C1_ArgsFollowPlaceholders ==
    ret.op = "All" => calls[1].args = SuppliedInTextOrder

\* C2 (invariant I1, SELECT rendering): the builder holds as many args as
\* the text produced by buildSQL has placeholder markers.
C2_ArgCountIsMarkerCount == Len(args) = CountMarkers(buildSQL)

\* All ran a statement with a join and a predicate that both carry a marker
C2_Witness ==
    /\ ret.op = "All"
    /\ Len(joinArgs) > 0
    /\ Len(whereArgs) > 0
    /\ CountMarkers(calls[1].sql) = 2

\* C3: Delete passes as many arguments as its DELETE text has markers, in
\* the order of the markers, whatever composition calls came before.
C3_DeleteArgsMatchText ==
    ret.op = "Delete" =>
        /\ Len(calls[1].args) = CountMarkers(calls[1].sql)
        /\ calls[1].args = whereArgs

\* the column of the k-th SET assignment of an UPDATE text
SetColumn(sql, k) ==
    sql[(CHOOSE i \in DOMAIN sql : sql[i] = "SET") + 1 + 4 * (k - 1)]

\* C4: Update passes the SET values first, the k-th being the value of the
\* column of the k-th SET assignment, then the predicates' arguments; the
\* argument count equals the number of markers of the UPDATE text.
C4_UpdateArgsMatchText ==
    (ret.op = "Update" /\ ret.err # "validation") =>
        LET c == calls[1]
            data == ret.input.data
            k == Cardinality(DOMAIN data)
        IN /\ Len(c.args) = CountMarkers(c.sql)
           /\ Len(c.args) >= k
           /\ \A i \in 1..k : c.args[i] = data[SetColumn(c.sql, i)]
           /\ SubSeq(c.args, k + 1, Len(c.args)) = whereArgs

\* C5: when the transport executes the COUNT statement and returns its one
\* scalar row, Count returns that scalar and a nil error.
C5_CountReturnsScalar ==
    (ret.op = "Count" /\ calls[1].resp.ok /\ calls[1].resp.rows = 1) =>
        /\ ret.err = "nil"
        /\ ret.count = calls[1].resp.scalar

\* C6: Count leaves projections as they were and Last leaves orderBy as it
\* was, whether they return an error or not.
C6_CountAndLastRestore ==
    [][/\ ret'.op = "Count" => selects' = selects
       /\ ret'.op = "Last" => orderBy' = orderBy]_vars

\* Last returned without error after running an inverted ordering, and the
\* builder still holds the ordering it was given
C6_Witness ==
    /\ ret.op = "Last"
    /\ ret.err = "nil"
    /\ orderBy = << <<"a", "ASC">> >>
    /\ Contains(calls[1].sql, "DESC")
    /\ ~Contains(calls[1].sql, "ASC")

\* C7: after Exists returns the projections equal their value before the
\* call.
C7_ExistsRestoresSelects ==
    [][ret'.op = "Exists" => selects' = selects]_vars

\* C8: Exists returns true iff the statement was executed without error and
\* returned exactly one row.
C8_ExistsIffOneRow ==
    ret.op = "Exists" =>
        (ret.found <=> (calls[1].resp.ok /\ calls[1].resp.rows = 1))

\* C9: the count statement executed by Paginate carries no LIMIT and no
\* OFFSET clause, whatever limit and offset the builder holds.
C9_PaginateCountUnlimited ==
    ret.op = "Paginate" =>
        /\ ~Contains(calls[1].sql, "LIMIT")
        /\ ~Contains(calls[1].sql, "OFFSET")

\* C10: when the transport works, Paginate(page, perPage) leaves
\* limit = perPage and offset = (page-1)*perPage, runs fetch-all and returns
\* the number of matching rows as total; page 2 of 10 over 25 rows is 5
\* records at offset 10.
C10_PaginateResult ==
    (ret.op = "Paginate" /\ ~ret.input.out.fail) =>
        LET in == ret.input
        IN /\ limit = in.perPage
           /\ offset = (in.page - 1) * in.perPage
           /\ Len(calls) = 2 /\ calls[2].kind = "Query"
           /\ ret.count = in.out.rows
           /\ (in.page = 2 /\ in.perPage = 10 /\ in.out.rows = 25
                  /\ ret.err = "nil")
                => (ret.count = 25 /\ ret.n = 5 /\ offset = 10)

\* an order-by entry with its direction inverted and its field name kept:
\* a trailing ASC becomes DESC, a trailing DESC becomes ASC, an entry with
\* no direction gets DESC
InvertedDirection(order) ==
    LET last == order[Len(order)]
        field == SubSeq(order, 1, Len(order) - 1)
    IN IF last = "ASC" THEN field \o <<"DESC">>
       ELSE IF last = "DESC" THEN field \o <<"ASC">>
       ELSE order \o <<"DESC">>

\* C11: Last executes with limit 1 and, when the builder has order-by
\* entries, with the same fields in the same order, every direction inverted
\* and every field name unchanged.
C11_LastInvertsDirections ==
    (ret.op = "Last" /\ Len(orderBy) > 0) =>
        calls[1].sql =
            Render(selects,
                   [i \in 1..Len(orderBy) |-> InvertedDirection(orderBy[i])],
                   1, offset)

\* C12: All sends the statement of the current state and changes no field of
\* the builder; Get and First change only limit, which becomes 1, and an All
\* that follows them sends LIMIT 1.
C12_FetchFrame ==
    [][/\ ret'.op = "All" =>
              /\ builder' = builder
              /\ calls'[1].sql = buildSQL
              /\ calls'[1].args = args
       /\ ret'.op \in {"Get", "First"} =>
              /\ limit' = 1
              /\ <<table, selects, wheres, groupBy, orderBy, offset, args,
                   distinct, having, joins>>'
                 = <<table, selects, wheres, groupBy, orderBy, offset, args,
                     distinct, having, joins>>
       /\ (ret.op \in {"Get", "First"} /\ ret'.op = "All") =>
              ClauseNumber(calls'[1].sql, "LIMIT") = 1]_vars

\* All ran on a builder that a fetch of one record had left with limit 1 and
\* with the projections and ordering composed before it
C12_Witness ==
    /\ ret.op = "All"
    /\ limit = 1
    /\ ClauseNumber(calls[1].sql, "LIMIT") = 1
    /\ selects = << <<"id">>, <<"name">> >>
    /\ Len(orderBy) > 0

\* the tokens a clause of the statement starts with, in the order of the
\* clauses: SELECT, FROM, joins, WHERE, GROUP BY, HAVING, ORDER BY, LIMIT,
\* OFFSET
ClauseStarts ==
    << {"SELECT"}, {"FROM"}, {"JOIN", "LEFT", "RIGHT"}, {"WHERE"}, {"GROUP"},
       {"HAVING"}, {"ORDER"}, {"LIMIT"}, {"OFFSET"} >>

\* where clause k starts in a statement, 0 when the statement has none
ClauseAt(sql, k) ==
    IF \E i \in DOMAIN sql : sql[i] \in ClauseStarts[k]
    THEN CHOOSE i \in DOMAIN sql :
             /\ sql[i] \in ClauseStarts[k]
             /\ \A j \in 1..(i - 1) : sql[j] \notin ClauseStarts[k]
    ELSE 0

\* the text of clause k: from its start up to the start of the clause that
\* follows it in the statement
ClauseText(sql, k) ==
    LET at == ClauseAt(sql, k)
        later == {p \in {ClauseAt(sql, j) : j \in DOMAIN ClauseStarts} : p > at}
        end == IF later = {} THEN Len(sql)
               ELSE (CHOOSE p \in later : \A q \in later : p <= q) - 1
    IN IF at = 0 THEN <<>> ELSE SubSeq(sql, at, end)

\* C13: the statement has its clauses in the order SELECT [DISTINCT]
\* projections, FROM, joins, WHERE, GROUP BY, HAVING, ORDER BY, LIMIT,
\* OFFSET; each clause lists the builder's entries in append order,
\* predicates and having conditions joined by AND; a clause without entries
\* is absent.
C13_ClauseOrder ==
    ret.op = "All" =>
        LET sql == calls[1].sql
        IN /\ \A i, j \in DOMAIN ClauseStarts :
                  (i < j /\ ClauseAt(sql, i) > 0 /\ ClauseAt(sql, j) > 0)
                      => ClauseAt(sql, i) < ClauseAt(sql, j)
           /\ ClauseAt(sql, 1) = 1
           /\ ClauseText(sql, 1) =
                  <<"SELECT">> \o (IF distinct THEN <<"DISTINCT">> ELSE <<>>)
                      \o JoinText(selects, <<",">>)
           /\ ClauseText(sql, 2) =
                  (IF table = <<>> THEN <<>> ELSE <<"FROM">> \o table)
           /\ ClauseText(sql, 3) = JoinText(joins, <<>>)
           /\ ClauseText(sql, 4) =
                  (IF Len(wheres) = 0 THEN <<>>
                   ELSE <<"WHERE">> \o JoinText(wheres, <<"AND">>))
           /\ ClauseText(sql, 5) =
                  (IF Len(groupBy) = 0 THEN <<>>
                   ELSE <<"GROUP", "BY">> \o JoinText(groupBy, <<",">>))
           /\ ClauseText(sql, 6) =
                  (IF Len(having) = 0 THEN <<>>
                   ELSE <<"HAVING">> \o JoinText(having, <<"AND">>))
           /\ ClauseText(sql, 7) =
                  (IF Len(orderBy) = 0 THEN <<>>
                   ELSE <<"ORDER", "BY">> \o JoinText(orderBy, <<",">>))
           /\ ClauseText(sql, 8) =
                  (IF limit > 0 THEN <<"LIMIT", Itoa(limit)>> ELSE <<>>)
           /\ ClauseText(sql, 9) =
                  (IF offset > 0 THEN <<"OFFSET", Itoa(offset)>> ELSE <<>>)

\* All sent a statement whose values were composed for a having condition
\* first and a predicate second, and the predicate comes first in the text
C13_Witness ==
    /\ ret.op = "All"
    /\ Len(havingArgs) = 1
    /\ Len(whereArgs) = 1
    /\ args = havingArgs \o whereArgs
    /\ ClauseAt(calls[1].sql, 4) > 0
    /\ ClauseAt(calls[1].sql, 4) < ClauseAt(calls[1].sql, 6)

\* a keeps its entries, in their order, in b
RECURSIVE Kept(_, _)
Kept(a, b) ==
    IF a = <<>> THEN TRUE
    ELSE IF b = <<>> THEN FALSE
    ELSE IF Head(a) = Head(b) THEN Kept(Tail(a), Tail(b))
    ELSE Kept(a, Tail(b))

\* the projections that calls have put into selects: every entry but the
\* `*` that NewQuery starts with (no call made here passes `*`)
PutByCalls(sel) == SelectSeq(sel, LAMBDA e : e # <<"*">>)

\* C14: a composition call keeps, in their order, the entries that earlier
\* calls put into the projections (a window projection added by AddToQuery
\* included), the predicates, the joins, the group-by fields, the having
\* conditions and the order-by entries.
C14_CompositionAppends ==
    [][ret'.op \in {"none", "AddToQuery"} =>
          /\ Kept(PutByCalls(selects), selects')
          /\ Kept(wheres, wheres')
          /\ Kept(joins, joins')
          /\ Kept(groupBy, groupBy')
          /\ Kept(having, having')
          /\ Kept(orderBy, orderBy')]_vars

TerminalOps ==
    {"Get", "All", "Count", "Exists", "First", "Last", "Paginate", "Update",
     "Delete"}

C16_ValidationFirst ==
    [][(\/ ret'.op = "Update" /\ DOMAIN ret'.input.data = {}
        \/ ret'.op \in {"AggregateGet", "AggregateAll"} /\ Len(funcs) = 0)
       => /\ ret'.err # "nil"
          /\ calls' = <<>>
          /\ builder' = builder]_vars

\* Aggregate.Get with no aggregate function returned the validation error on
\* a builder that holds predicates and args
C16_Witness ==
    /\ ret.op = "AggregateGet"
    /\ ret.err = "validation"
    /\ funcs = <<>>
    /\ calls = <<>>
    /\ Len(args) > 0
    /\ selects = << <<"*">> >>

\* C18: Aggregate.Get into a pointer to a map, when the transport returns one
\* row, returns no error and fills the destination.
C18_AggregateGetIntoMap ==
    (/\ ret.op = "AggregateGet"
     /\ ret.input.dest = "map"
     /\ Len(calls) = 1
     /\ calls[1].resp.ok
     /\ calls[1].resp.rows = 1)
    => (ret.err = "nil" /\ ret.n = 1)

AggregateOps ==
    {"AggAny", "AggArgMax", "AggArgMin", "AggAvg", "AggCorr", "AggCount",
     "AggCountDistinct", "AggCovarPop", "AggCovarSamp", "AggEntropy",
     "AggGeometricMean", "AggGroupArray", "AggGroupUniqArray",
     "AggHarmonicMean", "AggHistogram", "AggKurtPop", "AggMax",
     "AggMedian", "AggMin", "AggQuantile", "AggSkewPop", "AggStdDev",
     "AggSum", "AggTopK", "AggTopKWeighted", "AggUniq", "AggUniqExact",
     "AggVariance"}

\* six decimals of a level given in hundredths, as in 0.950000
SixDecimals(h) == <<"0.", Itoa(h \div 10), Itoa(h % 10), "0000">>

\* the expression and the alias the table of operations gives for an
\* aggregate call with number num and operands ops
AggregateTable(op, num, ops) ==
    CASE op = "AggSum" ->
          [expr |-> <<"SUM(", ops[1], ")">>, alias |-> <<"sum_", ops[1]>>]
      [] op = "AggAvg" ->
          [expr |-> <<"AVG(", ops[1], ")">>, alias |-> <<"avg_", ops[1]>>]
      [] op = "AggMin" ->
          [expr |-> <<"MIN(", ops[1], ")">>, alias |-> <<"min_", ops[1]>>]
      [] op = "AggMax" ->
          [expr |-> <<"MAX(", ops[1], ")">>, alias |-> <<"max_", ops[1]>>]
      [] op = "AggCountDistinct" ->
          [expr |-> <<"COUNT(", "DISTINCT", ops[1], ")">>,
           alias |-> <<"count_distinct_", ops[1]>>]
      [] op = "AggUniq" ->
          [expr |-> <<"uniq(", ops[1], ")">>, alias |-> <<"uniq_", ops[1]>>]
      [] op = "AggUniqExact" ->
          [expr |-> <<"uniqExact(", ops[1], ")">>, alias |-> <<"uniq_exact_", ops[1]>>]
      [] op = "AggMedian" ->
          [expr |-> <<"median(", ops[1], ")">>, alias |-> <<"median_", ops[1]>>]
      [] op = "AggStdDev" ->
          [expr |-> <<"stddev(", ops[1], ")">>, alias |-> <<"stddev_", ops[1]>>]
      [] op = "AggVariance" ->
          [expr |-> <<"varSamp(", ops[1], ")">>, alias |-> <<"variance_", ops[1]>>]
      [] op = "AggAny" ->
          [expr |-> <<"any(", ops[1], ")">>, alias |-> <<"any_", ops[1]>>]
      [] op = "AggArgMin" ->
          [expr |-> <<"argMin(", ops[1], ",", ops[2], ")">>,
           alias |-> <<"argmin_", ops[1], "_", ops[2]>>]
      [] op = "AggArgMax" ->
          [expr |-> <<"argMax(", ops[1], ",", ops[2], ")">>,
           alias |-> <<"argmax_", ops[1], "_", ops[2]>>]
      [] op = "AggGroupArray" ->
          [expr |-> <<"groupArray(", ops[1], ")">>, alias |-> <<"group_array_", ops[1]>>]
      [] op = "AggGroupUniqArray" ->
          [expr |-> <<"groupUniqArray(", ops[1], ")">>, alias |-> <<"group_uniq_array_", ops[1]>>]
      [] op = "AggTopK" ->
          [expr |-> <<"topK(", Itoa(num), ")(", ops[1], ")">>,
           alias |-> <<"topk_", Itoa(num), "_", ops[1]>>]
      [] op = "AggHistogram" ->
          [expr |-> <<"histogram(", Itoa(num), ")(", ops[1], ")">>,
           alias |-> <<"histogram_", Itoa(num), "_", ops[1]>>]
      [] op = "AggCorr" ->
          [expr |-> <<"corr(", ops[1], ",", ops[2], ")">>,
           alias |-> <<"corr_", ops[1], "_", ops[2]>>]
      [] op = "AggCovarPop" ->
          [expr |-> <<"covarPop(", ops[1], ",", ops[2], ")">>,
           alias |-> <<"covar_pop_", ops[1], "_", ops[2]>>]
      [] op = "AggCovarSamp" ->
          [expr |-> <<"covarSamp(", ops[1], ",", ops[2], ")">>,
           alias |-> <<"covar_samp_", ops[1], "_", ops[2]>>]
      [] op = "AggSkewPop" ->
          [expr |-> <<"skewPop(", ops[1], ")">>, alias |-> <<"skew_pop_", ops[1]>>]
      [] op = "AggKurtPop" ->
          [expr |-> <<"kurtPop(", ops[1], ")">>, alias |-> <<"kurt_pop_", ops[1]>>]
      [] op = "AggEntropy" ->
          [expr |-> <<"entropy(", ops[1], ")">>, alias |-> <<"entropy_", ops[1]>>]
      [] op = "AggGeometricMean" ->
          [expr |-> <<"geometricMean(", ops[1], ")">>, alias |-> <<"geometric_mean_", ops[1]>>]
      [] op = "AggHarmonicMean" ->
          [expr |-> <<"harmonicMean(", ops[1], ")">>, alias |-> <<"harmonic_mean_", ops[1]>>]
      [] op = "AggCount" ->
          IF ops[1] = "*" THEN [expr |-> <<"COUNT(*)">>, alias |-> <<"count">>]
          ELSE [expr |-> <<"COUNT(", ops[1], ")">>,
                alias |-> <<"count_", ops[1]>>]
      [] op = "AggQuantile" ->
          [expr |-> <<"quantile(">> \o SixDecimals(num) \o <<")(", ops[1], ")">>,
           alias |-> <<"quantile_">> \o SixDecimals(num) \o <<"_", ops[1]>>]
      [] op = "AggTopKWeighted" ->
          [expr |-> <<"topKWeighted(", Itoa(num), ")(", ops[1], ",", ops[2], ")">>,
           alias |-> <<"topk_weighted_", Itoa(num), "_", ops[1], "_", ops[2]>>]

\* the projection the table gives for the call that ret describes, with the
\* given keyword between expression and alias
Projection(r, keyword) ==
    LET row == AggregateTable(r.op, r.input.num, r.input.ops)
    IN row.expr \o <<keyword>> \o row.alias

\* C20 as stated: every aggregate call appends exactly one projection
\* `expression AS alias`, expression and alias as in the table of operations.
C20_AggregateProjection ==
    [][ret'.op \in AggregateOps =>
           funcs' = Append(funcs, Projection(ret', "AS"))]_vars

\* C20 amended: every aggregate call appends exactly one projection
\* `expression as alias`, the keyword in lower case, expression and alias as
\* in the table of operations.
C20_AggregateProjectionLower ==
    [][ret'.op \in AggregateOps =>
           funcs' = Append(funcs, Projection(ret', "as"))]_vars

\* Count("*") and Quantile(0.95, "score") were called in a chain and left
\* the projections COUNT(*) as count and quantile(0.950000)(score) as
\* quantile_0.950000_score
C20_Witness ==
    /\ ret.op = "AggQuantile"
    /\ funcs = << <<"COUNT(*)", "as", "count">>,
                  <<"quantile(", "0.", "9", "5", "0000", ")(", "score", ")",
                    "as", "quantile_", "0.", "9", "5", "0000", "_", "score">> >>

\* C17: a record written by Insert and read back from its row, by QueryRow
\* or by Query, into a destination of the same record type has the value the
\* record had in every field, column-name overrides or not.
C17_RoundTrip ==
    (/\ ret.op \in {"ReadRow", "ReadRows"}
     /\ ret.err = "nil"
     /\ ret.n = 1
     /\ result.type = stored.of.type)
    => result.vals = stored.of.vals

\* C19: no operation aborts the process.
C19_NoAbort == ret.err # "panic"

\* C21: the statement of an aggregate terminal operation projects what the
\* builder's projection list holds after the call; that list keeps, in
\* their order, the projections calls had put there before, and ends with
\* the aggregate expressions in call order.
C21_AggregatesAppended ==
    [][(ret'.op \in {"AggregateGet", "AggregateAll"} /\ Len(funcs) > 0) =>
          /\ ClauseText(calls'[1].sql, 1) =
                 <<"SELECT">> \o JoinText(selects', <<",">>)
          /\ Kept(PutByCalls(selects), selects')
          /\ Len(selects') >= Len(funcs)
          /\ SubSeq(selects', Len(selects') - Len(funcs) + 1, Len(selects'))
                 = funcs]_vars

\* the text between the parentheses of an OVER clause for the expressions
\* given to Over
OverParts(in) ==
    (IF in.partitionBy # <<>> THEN <<"PARTITION", "BY">> \o in.partitionBy
     ELSE <<>>)
    \o (IF in.orderBy # <<>> THEN <<"ORDER", "BY">> \o in.orderBy ELSE <<>>)

\* AS alias, when an alias is set
AliasPart == IF window.alias # <<>> THEN <<"AS">> \o window.alias ELSE <<>>

\* C22 as stated: after Over the projection of a Window with a function has
\* no OVER clause when both expressions are empty, and otherwise an OVER
\* clause with PARTITION BY, ORDER BY or both, for the expressions given.
C22_OverOmittedWhenEmpty ==
    (ret.op = "Over" /\ window.function # <<>>) =>
        Build = window.function
                \o (IF OverParts(ret.input) = <<>> THEN <<>>
                    ELSE <<"OVER", "(">> \o OverParts(ret.input) \o <<")">>)
                \o AliasPart

\* C22 amended: after Over the projection of a Window with a function always
\* has an OVER clause: `OVER ( )` when both expressions are empty, and
\* otherwise PARTITION BY, ORDER BY or both, for the expressions given.
C22_OverAlwaysRendered ==
    (ret.op = "Over" /\ window.function # <<>>) =>
        Build = window.function
                \o <<"OVER", "(">> \o OverParts(ret.input) \o <<")">>
                \o AliasPart

\* Over was called with two empty expressions on a Window with a function,
\* and the projection ends with an empty OVER clause
C22_Witness ==
    /\ ret.op = "Over"
    /\ ret.input.partitionBy = <<>>
    /\ ret.input.orderBy = <<>>
    /\ window.function = <<"ROW_NUMBER()">>
    /\ Build = <<"ROW_NUMBER()", "OVER", "(", ")">>

SelectorOps ==
    {"RowNumber", "Rank", "DenseRank", "Lag", "Lead", "FirstValue",
     "LastValue", "NthValue", "Ntile", "PercentRank", "CumeDist"}

\* the function a selector call stands for
SelectorFunction(op, in) ==
    CASE op = "RowNumber" -> <<"ROW_NUMBER()">>
      [] op = "Rank" -> <<"RANK()">>
      [] op = "DenseRank" -> <<"DENSE_RANK()">>
      [] op = "Lag" -> <<"LAG(", in[1], ",", Itoa(in[2]), ")">>
      [] op = "Lead" -> <<"LEAD(", in[1], ",", Itoa(in[2]), ")">>
      [] op = "FirstValue" -> <<"FIRST_VALUE(", in[1], ")">>
      [] op = "LastValue" -> <<"LAST_VALUE(", in[1], ")">>
      [] op = "NthValue" -> <<"NTH_VALUE(", in[1], ",", Itoa(in[2]), ")">>
      [] op = "Ntile" -> <<"NTILE(", Itoa(in[1]), ")">>
      [] op = "PercentRank" -> <<"PERCENT_RANK()">>
      [] op = "CumeDist" -> <<"CUME_DIST()">>

\* C23: a selector call returns no error and leaves the projection with the
\* function of that call alone, followed by the over clause and the alias
\* set before; Over and As leave the function as it is.
C23_LastSelectorWins ==
    [][/\ ret'.op \in SelectorOps =>
              /\ ret'.err = "nil"
              /\ window'.over = window.over
              /\ window'.alias = window.alias
              /\ Build' = SelectorFunction(ret'.op, ret'.input)
                          \o window.over \o AliasPart
       /\ ret'.op \in {"Over", "As"} =>
              /\ ret'.err = "nil"
              /\ window'.function = window.function]_vars

\* Rank was called on a Window whose ROW_NUMBER() projection had been added
\* to the builder, and the Window now holds RANK() alone
C23_Witness ==
    /\ ret.op = "Rank"
    /\ selects = << <<"*">>, <<"ROW_NUMBER()">> >>
    /\ Build = <<"RANK()">>

C25_CacheKeepsFirst ==
    [][ret'.op = "ParseStruct" =>
          LET model == ret'.input.model
              info == ret'.input.info
              type == model.type
          IN /\ registry \subseteq registry'
             /\ \A d, e \in registry' : d.Name = e.Name => d = e
             /\ \A d \in registry' \ registry :
                    /\ d = ParseStruct(model)
                    /\ Len(d.Fields) = Len(type.fields)
                    /\ \A i \in DOMAIN d.Fields :
                           d.Fields[i].Name = IF type.fields[i].ch # ""
                                              THEN type.fields[i].ch
                                              ELSE type.fields[i].go
             /\ ret'.err = "nil" =>
                    /\ info \in registry'
                    /\ \A d \in registry :
                           d.Name = info.Name =>
                               /\ info = d
                               /\ BuildCreateTableSQL(info)
                                      = BuildCreateTableSQL(d)
             /\ ret'.err # "nil" => registry' = registry]_vars

\* ParseStruct was called with a record of another type that resolves to the
\* table name of TestUser, and returned the descriptor cached for TestUser
C25_Witness ==
    /\ ret.op = "ParseStruct"
    /\ ret.err = "nil"
    /\ ret.input.model.type = Other
    /\ ret.input.info \in registry
    /\ Len(ret.input.info.Fields) = 2
    /\ ret.input.info.Fields[1].Name = "name"
    /\ BuildCreateTableSQL(ret.input.info) =
           <<"CREATE", "TABLE", "IF", "NOT", "EXISTS", "test_users", "(",
             "name", "String", ",", "email", "String", ")",
             "ENGINE", "=", "MergeTree">>

\* C26: SetFieldValue on the field of the record returns no error; a number
\* of an integer type other than the type of an integer field is stored
\* reduced modulo 2^w and read with the signedness of the field; a value that
\* is no number and no text leaves the field as it was.
C26_IntegerCoercion ==
    [][(ret'.op = "SetFieldValue" /\ ret'.input.fieldName = "Value") =>
          LET value == ret'.input.value
          IN /\ ret'.err = "nil"
             /\ target'.type = target.type
             /\ target.type \in IntegerTypes =>
                    /\ (value.type \in IntegerTypes /\ value.type # target.type)
                           => target'.v = Wrap(value.v, target.type)
                    /\ value.type \in {"float64", "bool"}
                           => target'.v = target.v]_vars

\* the column names of a record type in declaration order: the `ch` tag of a
\* field, else its Go name
ColumnNames(type) ==
    [i \in DOMAIN type.fields |->
        IF type.fields[i].ch # "" THEN type.fields[i].ch ELSE type.fields[i].go]

\* C27: the statement of an Insert or InsertBatch that reaches the transport
\* names every field of the record type once, in declaration order; it has
\* as many placeholders as the call has values, records times fields; the
\* value at a column is the record's value of that field. InsertBatch with
\* an empty list makes no call and returns no error.
C27_InsertAligned ==
    (ret.op \in {"Insert", "InsertBatch"} /\ ret.err \in {"nil", "exec"}) =>
        LET records == IF ret.op = "Insert" THEN <<ret.input.model>>
                       ELSE ret.input.models
        IN IF records = <<>> THEN calls = <<>> /\ ret.err = "nil"
           ELSE LET type == records[1].type
                    names == ColumnNames(type)
                    n == Len(names)
                    sql == calls[1].sql
                    open == CHOOSE i \in DOMAIN sql : sql[i] = "("
                    close == CHOOSE i \in DOMAIN sql : sql[i] = ")"
                IN /\ Len(calls) = 1
                   /\ SubSeq(sql, open + 1, close - 1)
                          = JoinText([i \in DOMAIN names |-> <<names[i]>>],
                                     <<",">>)
                   /\ CountMarkers(sql) = Len(calls[1].args)
                   /\ Len(calls[1].args) = Len(records) * n
                   /\ \A r \in DOMAIN records, i \in 1..n :
                          records[r].type = type =>
                              calls[1].args[(r - 1) * n + i]
                                  = records[r].vals[i]

\* C28: WhereIn and WhereNotIn with n >= 1 values append one predicate, with
\* n placeholders, and the n values to the args in their order; with no
\* value they leave the builder and the statement it renders as they were.
C28_InListAligned ==
    [][ret'.op \in {"WhereIn", "WhereNotIn"} =>
          LET values == ret'.input.values
              n == Len(values)
          IN IF n = 0
             THEN /\ builder' = builder
                  /\ buildSQL' = buildSQL
             ELSE /\ Len(wheres') = Len(wheres) + 1
                  /\ SubSeq(wheres', 1, Len(wheres)) = wheres
                  /\ CountMarkers(wheres'[Len(wheres')]) = n
                  /\ wheres'[Len(wheres')] =
                         <<ret'.input.field>>
                         \o (IF ret'.op = "WhereIn" THEN <<"IN">>
                             ELSE <<"NOT", "IN">>)
                         \o <<"(">> \o JoinText(Placeholders(values), <<",">>)
                         \o <<")">>
                  /\ args' = args \o values
                  /\ <<table, selects, groupBy, orderBy, limit, offset,
                       distinct, having, joins>>'
                     = <<table, selects, groupBy, orderBy, limit, offset,
                         distinct, having, joins>>]_vars

\* WhereIn was called with an empty list on a builder that holds a predicate
\* and its value, and the builder holds no more than that
C28_Witness ==
    /\ ret.op = "WhereIn"
    /\ ret.input.values = <<>>
    /\ Len(wheres) = 1
    /\ Len(args) = 1
    /\ CountMarkers(buildSQL) = 1

HealthyPositive(host) ==
    \E i \in DOMAIN nodes :
        nodes[i].Host = host /\ nodes[i].Healthy /\ nodes[i].Weight > 0

\* C30: GetNodeByWeight returns nil just when no node is healthy, and else a
\* healthy node; and once a node is healthy with a positive weight, a call
\* returns it unless the nodes or their health are changed first.
C30_EveryHealthyNodeReturned ==
    /\ [](ret.op = "GetNodeByWeight" =>
              /\ ret.input.node = "" <=> GetHealthyNodes = <<>>
              /\ ret.input.node # "" =>
                     \E i \in DOMAIN nodes :
                         nodes[i].Host = ret.input.node /\ nodes[i].Healthy)
    /\ \A host \in Hosts :
           HealthyPositive(host) ~>
               \/ ret.op = "GetNodeByWeight" /\ ret.input.node = host
               \/ ret.op \in {"AddNode", "RemoveNode", "HealthCheck"}

====
